---- MODULE Spec2Model ----
(***************************************************************************)
(* A model of the aector actor runtime: addresses and mailboxes, the       *)
(* behavior dispatch tables, the actor run loop, and the actor system      *)
(* (registry, spawn, supervised restart loop, stop).                       *)
(***************************************************************************)
EXTENDS Integers, Sequences, FiniteSets, TLC

\* ---------------------------------------------------------------- bounds
MaxSend == 2          \* messages the external sender sends in one run
BufferSize == 1       \* capacity N of a MailboxType::Bounded(N) mailbox
MaxStops == 1         \* calls of ActorSystem::stop in one run
MaxSystemSend == 1    \* messages sent in one run of the two-actor system
MaxWorkers == 2       \* scheduler workers (1: a current-thread scheduler)
MaxForward == 2       \* messages the peer sends in one run of the forwarding pair
MaxCast == 1          \* sends and broadcasts the peer makes in one run of the counters
MaxPlan == 2          \* builder calls of a test plan
MaxManage == 1        \* management messages the peer sends to the test driver

\* The actor objects built with Actor::new, and the names they are spawned
\* under: actor 1 as "a", actor 2 as "a" or "b", actor 3 as "c"; spawn_test
\* registers its actor as "test_actor".
Actors == {1, 2, 3}
Names == {"a", "b", "c", "test_actor"}
NamesOf(i) == IF i = 1 THEN {"a"} ELSE IF i = 2 THEN {"a", "b"} ELSE {"c"}
NoActor == 0

\* ------------------------------------------------------------- messages
\* Payload values a peer can send, and the Rust type (TypeId) of each.
Payloads ==
    {"Inc", "Get", "SwapAlt", "SwapEmpty", "Boom", "KillBoom", "Panic", "Other", "Kill",
     "Restart", "Fwd", "FwdAsk", "FwdDelayed", "Val", "Ping", "Pong", "Cast",
     "RunNext", "CheckIs0", "Result", "Emit", "EmitAsk"}

TypeOf(p) ==
    CASE p = "Inc" -> "i32"
      [] p = "Get" -> "Get"
      [] p \in {"SwapAlt", "SwapEmpty"} -> "ChangeMsg"
      [] p = "Boom" -> "Boom"
      [] p = "KillBoom" -> "KillBoom"
      [] p = "Panic" -> "Panic"
      [] p \in {"Kill", "Restart"} -> "ActorManageMessage"
      [] p \in {"Fwd", "FwdAsk", "FwdDelayed"} -> "Fwd"
      [] p = "Val" -> "Val"
      [] p = "Cast" -> "Cast"
      [] p \in {"Ping", "Pong"} -> "Ball"
      [] p = "RunNext" -> "TestActorMessage"
      [] p \in {"CheckIs0", "Result"} -> "StateCheckMessage"
      [] p \in {"Emit", "EmitAsk"} -> "Emit"
      [] OTHER -> "Other"

\* Message { inner, sender }: seq identifies the envelope (its place in the
\* sender's program order; a message sent by a handler carries the seq of the
\* message that handler was called with), ask is "sender is Some(reply_to)",
\* sender is the actor behind the reply-to address (NoActor: the address is
\* the external peer's), val is the value carried by the payload.
Envelope(seq, payload, ask, sender, val) ==
    [seq |-> seq, payload |-> payload, ask |-> ask, sender |-> sender, val |-> val]

\* Message::without_sender / Message::with_sender
Message_without_sender(seq, payload, val) == Envelope(seq, payload, FALSE, NoActor, val)
Message_with_sender(seq, payload, val, reply_to) == Envelope(seq, payload, TRUE, reply_to, val)

\* An envelope of the external peer (its reply-to address is its own).
Message(seq, payload, ask) == Envelope(seq, payload, ask, NoActor, 0)
NoMsg == Message(0, "none", FALSE)

Message_type_id(m) == TypeOf(m.payload)

\* The sends a peer makes: <<payload, ask>>, ask = TRUE for Addr::ask (with a
\* reply-to address), FALSE for Addr::tell. i32 and Get are sent both ways.
Sends ==
    {<<"Inc", FALSE>>, <<"Inc", TRUE>>, <<"Get", TRUE>>, <<"Get", FALSE>>,
     <<"SwapAlt", TRUE>>, <<"SwapEmpty", TRUE>>, <<"Boom", FALSE>>,
     <<"Panic", FALSE>>, <<"Other", FALSE>>, <<"Kill", FALSE>>, <<"Restart", FALSE>>}

\* ---------------------------------------------------------------- state
VARIABLES
    mailbox,      \* [Actors -> "Unbounded" | "Bounded"]: Actor::new's mailbox_type
    queue,        \* [Actors -> Seq(Message)]: the channel's buffer
    sendTasks,    \* [Actors -> SUBSET Message]: detached tasks of a bounded send
    sent,         \* messages the external sender has sent so far
    state,        \* [Actors -> Nat]: Actor.state
    behavior,     \* [Actors -> BehaviorIds]: Actor.behavior
    flag,         \* [Actors -> "Run" | "Kill" | "Restart"]: ActorContext.flag
    call,         \* [Actors -> position of the spawn call made for the actor]
    strategy,     \* [Actors -> "none" | "SimpleRestart"]
    name,         \* [Actors -> Names]: the name the actor is spawned under
    pc,           \* [Actors -> position of the actor's run task]
    cur,          \* [Actors -> Message]: the message dequeued last
    handler,      \* [Actors -> handler id]: the handler picked for cur, or "none"
    exitReason,   \* [Actors -> "none" | "Kill" | "Restart" | "Error"]
    backup,       \* [Actors -> Backup or NoBackup]
    registry,     \* [Names -> Actors \cup {NoActor}]: ActorSystem.registry
    joined,       \* [Actors -> BOOLEAN]: the task's handle is in join_handles
    aborted,      \* [Actors -> BOOLEAN]: JoinHandle::abort was called on the task
    stopPc,       \* position of the stop() call in progress
    stops,        \* number of stop() calls made
    \* history variables
    executing,    \* [Actors -> Nat]: handlers of the actor in execution
    hooks,        \* [Actors -> hook name -> runs in the current life]
    hookBy,       \* [Actors -> behavior whose hook ran last, or "none"]
    installed,    \* [Actors -> behavior last installed by Change or a backup]
    lastSeq,      \* [Actors -> seq of the message dispatched last]
    replies,      \* set of <<actor, seq>>: replies sent to the reply-to address
    restarted,    \* [Actors -> BOOLEAN]: the supervisor restarted the actor
    \* environment
    dropped,      \* the peer has dropped its clones of the actors' addresses
    startPc,      \* position of the caller of ActorSystem::start
    workers,      \* number of scheduler workers that run the tasks
    delayed,      \* [Actors -> SUBSET Message]: tasks of Addr::send_with_delay
    \* the test driver (TestActor, the state of the actor run by spawn_test)
    plan,         \* the builder calls the test was defined with
    tasks,        \* TestActor.tasks
    test_state,   \* TestActor.test_state
    testPc,       \* position / result of the spawn_test call
    awaiting,     \* history: the step taken last waits for its response
    \* broadcast
    casts,        \* number of broadcast calls made
    castTo,       \* history: the actors registered when the last broadcast was called
    lastBy,       \* history: the actor that dequeued a message last
    sys           \* [Actors -> "None" | "Some"]: ActorContext.sys

driverVars == <<plan, tasks, test_state, testPc, awaiting>>
castVars == <<casts, castTo>>

vars == <<mailbox, queue, sendTasks, sent, state, behavior, flag, call, strategy,
          name, pc, cur, handler, exitReason, backup, registry, joined, aborted,
          stopPc, stops, executing, hooks, hookBy, installed, lastSeq, replies, restarted, dropped, startPc, workers, delayed, driverVars, castVars, lastBy, sys>>

\* ----------------------------------------------------------- test plans
\* The actor under test and the TestActor that drives the test.
Subject == 1
Driver == 3

\* Response<R> / ResponseDyn: the kind of message expected (Tell(TypeId,
\* criteria), Ask(TypeId, criteria) or Check), the payload type and the
\* criteria function. TestActorState::Ready is the state that expects nothing.
Response(kind, type, pred) == [kind |-> kind, type |-> type, pred |-> pred]
NoResponse == Response("none", "none", "none")
ResponseDyn_tell(type, pred) == Response("Tell", type, pred)
ResponseDyn_Check == Response("Check", "none", "none")
Ready == Response("Ready", "none", "none")

\* The criteria functions of the plans: is0 on a Val (its value is 0) and on
\* the subject's state (a check function), isPong on a Ball.
Criteria(pred, m) ==
    CASE pred = "is0" -> m.val = 0
      [] pred = "isPong" -> m.payload = "Pong"
      [] OTHER -> TRUE

\* A call of the builder: tell(msg), ask(msg, response), check(fn),
\* expect_tell::<T>(criteria), expect_ask::<T>(criteria). resp is the
\* response as the caller wrote it.
BuilderCall(op, payload, resp) == [op |-> op, payload |-> payload, resp |-> resp]

BuilderCalls ==
    {BuilderCall("tell", "Inc", NoResponse),
     BuilderCall("tell", "SwapEmpty", NoResponse),
     BuilderCall("tell", "Emit", NoResponse),
     BuilderCall("tell", "EmitAsk", NoResponse),
     BuilderCall("ask", "Get", Response("Tell", "Val", "is0")),
     BuilderCall("ask", "Get", Response("Tell", "Ball", "isPong")),
     BuilderCall("ask", "Ping", Response("Ask", "Ball", "isPong")),
     BuilderCall("ask", "Ping", Response("Tell", "Ball", "isPong")),
     BuilderCall("check", "CheckIs0", NoResponse),
     BuilderCall("expect_tell", "none", Response("Tell", "Val", "is0")),
     BuilderCall("expect_ask", "none", Response("Ask", "Ball", "isPong"))}

Plans == UNION {[1..n -> BuilderCalls] : n \in 0..MaxPlan}

\* TestTask: Tell(msg, id), Ask(msg, response, id), Check(fn, id),
\* Expect(response, id), Exit.
TestTask(task, payload, resp, id) == [task |-> task, payload |-> payload, resp |-> resp, id |-> id]
TestTask_Exit == TestTask("Exit", "none", NoResponse, 0)

\* ActorTestBuilder::tell / ask / check / expect_tell / expect_ask: the task
\* pushed for builder call c, with the id next_task_id returned.
ActorTestBuilder_push(c, id) ==
    CASE c.op = "tell" -> TestTask("Tell", c.payload, NoResponse, id)
      [] c.op = "ask" -> TestTask("Ask", c.payload, c.resp, id)
      [] c.op = "check" -> TestTask("Check", c.payload, NoResponse, id)
      [] c.op = "expect_tell" -> TestTask("Expect", "none", ResponseDyn_tell(c.resp.type, c.resp.pred), id)
      [] OTHER -> TestTask("Expect", "none", ResponseDyn_tell(c.resp.type, c.resp.pred), id)

\* ActorTestBuilder::build: the tasks of the calls in call order, then Exit.
ActorTestBuilder_build(p) ==
    Append([k \in 1..Len(p) |-> ActorTestBuilder_push(p[k], k - 1)], TestTask_Exit)

\* ------------------------------------------------------------ behaviors
\* The builders of the behaviors used by the modelled actors: which handler
\* is registered per payload type in the ask and the tell table, and which
\* lifecycle hooks are set.
EmptyTable == [t \in {} |-> "none"]

BehaviorBuilder_new == [ask |-> EmptyTable, tell |-> EmptyTable, hooks |-> {}]

\* TestActor::get_blanket_behavior: on_start and the tell handlers of
\* StateCheckMessage and TestActorMessage.
TestActor_get_blanket_behavior ==
    [ask |-> EmptyTable,
     tell |-> ("StateCheckMessage" :> "t_check") @@ ("TestActorMessage" :> "t_run"),
     hooks |-> {"on_start"}]

\* The behavior builder of ActorTestBuilder after the calls of p:
\* set_default_ask_response_behavior::<R> for an ask call with Response::Ask,
\* set_default_tell_response_behavior::<R> for an ask call with
\* Response::Tell, for expect_tell and for expect_ask.
ActorTestBuilder_behavior(p) ==
    LET asks == {p[k].resp.type : k \in {j \in 1..Len(p) : p[j].op = "ask" /\ p[j].resp.kind = "Ask"}}
        tells == {p[k].resp.type : k \in {j \in 1..Len(p) :
                      \/ p[j].op = "ask" /\ p[j].resp.kind = "Tell"
                      \/ p[j].op \in {"expect_tell", "expect_ask"}}}
    IN [ask |-> [t \in asks |-> "t_ask"],
        tell |-> TestActor_get_blanket_behavior.tell @@ [t \in tells |-> "t_tell"],
        hooks |-> TestActor_get_blanket_behavior.hooks]

Builder(b) ==
    CASE b = "Main" ->
           [ask |-> ("Get" :> "get") @@ ("ChangeMsg" :> "swap"),
            tell |-> ("i32" :> "inc") @@ ("Boom" :> "boom") @@ ("Panic" :> "panic")
                       @@ ("KillBoom" :> "killboom"),
            hooks |-> {"on_start", "on_kill", "on_error", "on_restart"}]
      [] b = "Alt" ->
           [ask |-> ("i32" :> "inc2"),
            tell |-> ("Boom" :> "boom"),
            hooks |-> {"on_start", "on_kill", "on_error", "on_restart"}]
      [] b = "Forward" ->
           [ask |-> EmptyTable,
            tell |-> ("Fwd" :> "fwd"),
            hooks |-> {}]
      [] b = "Counter" ->
           [ask |-> ("Get" :> "get"),
            tell |-> ("i32" :> "inc") @@ ("Cast" :> "cast"),
            hooks |-> {}]
      [] b = "PingPong" ->
           [ask |-> ("Ball" :> "ball"),
            tell |-> EmptyTable,
            hooks |-> {}]
      [] b = "Subject" ->
           [ask |-> ("Get" :> "get") @@ ("Ball" :> "ball") @@ ("StateCheckMessage" :> "check"),
            tell |-> ("i32" :> "inc") @@ ("ChangeMsg" :> "become") @@ ("Emit" :> "emit"),
            hooks |-> {}]
      [] b = "Test" -> ActorTestBuilder_behavior(plan)
      [] OTHER -> BehaviorBuilder_new

\* BehaviorBuilder::build that leaves the tables as the user filled them.
BehaviorBuilder_build_no_manage(bb) == [ask |-> bb.ask, tell |-> bb.tell, hooks |-> bb.hooks]

\* BehaviorBuilder::build: installs the tell handler of the management
\* protocol, then freezes the tables and hooks.
BehaviorBuilder_build(bb) ==
    [ask |-> bb.ask,
     tell |-> ("ActorManageMessage" :> "manage") @@ bb.tell,
     hooks |-> bb.hooks]

BehaviorIds == {"Main", "Alt", "Empty", "Forward", "Counter", "PingPong", "Subject", "Test"}
Behavior(b) == BehaviorBuilder_build(Builder(b))

\* Behavior::handle that falls back to the other table.
Behavior_handle_any_table(b, m) ==
    LET t == Message_type_id(m)
        first == IF m.ask THEN Behavior(b).ask ELSE Behavior(b).tell
        other == IF m.ask THEN Behavior(b).tell ELSE Behavior(b).ask
    IN IF t \in DOMAIN first THEN first[t]
       ELSE IF t \in DOMAIN other THEN other[t] ELSE "none"

\* Behavior::handle: the table is chosen by the presence of a reply-to
\* address; "none" when the table has no handler for the payload's type.
Behavior_handle(b, m) ==
    LET table == IF m.ask THEN Behavior(b).ask ELSE Behavior(b).tell
    IN IF Message_type_id(m) \in DOMAIN table THEN table[Message_type_id(m)] ELSE "none"

\* What a handler does when it is called with payload p on state s:
\*   state  - the state it leaves behind
\*   reply  - whether it sends a reply to the reply-to address
\*   flag   - the control flag it sets through ctx.kill()/ctx.restart(), or "keep"
\*            (killboom calls ctx.kill() and then returns Err)
\*   result - the BehaviorAction it returns ("Panic": it unwinds instead)
\*   change - the behavior carried by Change, or "none"
\* (the messages it sends to other actors are HandlerSends below)
Effect(s, reply, ctl, result, change) ==
    [state |-> s, reply |-> reply, flag |-> ctl, result |-> result, change |-> change]

\* One send made by a handler: Addr::tell / ask (delay FALSE) or
\* Addr::tell_delayed / ask_delayed (delay TRUE) of envelope msg to actor to.
Out(to, msg, delay) == [to |-> to, msg |-> msg, delay |-> delay]

\* ---------------------------------------------------- test driver handlers
\* What a handler of the TestActor does: the result it returns, the flag it
\* sets (ctx.kill()), the tasks and test_state it leaves, and the messages it
\* sends, in program order. waits: the handler has taken a task that waits
\* for a response ("yes"), has accepted a response ("no"), or neither ("same").
DriverResult(result, ctl, ts, tst, outs, waits) ==
    [result |-> result, flag |-> ctl, tasks |-> ts, test_state |-> tst, outs |-> outs,
     waits |-> waits]

\* ctx.get_addr().tell(TestActorMessage::RunNext)
RunNext(i) == Out(i, Message_without_sender(0, "RunNext", 0), FALSE)

\* on_tell::<TestActorMessage>: pop_front and run the task.
TestActor_run_next(i) ==
    IF tasks = <<>> THEN DriverResult("Keep", "keep", tasks, test_state, <<>>, "same")
    ELSE LET task == Head(tasks)
             rest == Tail(tasks)
         IN CASE task.task = "Tell" ->
                   DriverResult("Keep", "keep", rest, test_state,
                                <<Out(Subject, Message_without_sender(task.id + 1, task.payload, 0), FALSE),
                                  RunNext(i)>>, "same")
              [] task.task = "Ask" ->
                   DriverResult("Keep", "keep", rest, task.resp,
                                <<Out(Subject, Message_with_sender(task.id + 1, task.payload, 0, i), FALSE)>>,
                                "yes")
              [] task.task = "Check" ->
                   DriverResult("Keep", "keep", rest, ResponseDyn_Check,
                                <<Out(Subject, Message_with_sender(task.id + 1, task.payload, 0, i), FALSE)>>,
                                "yes")
              [] task.task = "Expect" ->
                   DriverResult("Keep", "keep", rest, task.resp, <<>>, "yes")
              [] OTHER ->
                   DriverResult("Keep", "Kill", rest, test_state, <<>>, "same")

\* on_tell::<StateCheckMessage>
TestActor_state_check(i, m) ==
    IF test_state.kind = "Check"
    THEN IF m.payload = "Result"
         THEN IF m.val = 0
              THEN DriverResult("Fail", "keep", tasks, Ready, <<>>, "same")
              ELSE DriverResult("Keep", "keep", tasks, Ready, <<RunNext(i)>>, "no")
         ELSE DriverResult("Keep", "keep", tasks, test_state, <<RunNext(i)>>, "no")
    ELSE DriverResult("Fail", "keep", tasks, test_state, <<>>, "same")

\* Message::instance_of::<M>
Message_instance_of(m, M) == Message_type_id(m) = M

\* Default handlers that call the criteria of the pending response on every
\* message they get.
TestActor_calls_criteria_any_type(m, resp) == TRUE

\* The default handlers call the criteria of the pending response only when
\* the type M they were registered for is the TypeId stored in the response
\* (M is the type of the message: Behavior::handle found the handler under it).
TestActor_calls_criteria(m, resp) == Message_type_id(m) = resp.type

\* The handler of set_default_tell_response_behavior::<M>.
TestActor_default_tell(i, m) ==
    IF test_state.kind = "Tell"
    THEN IF TestActor_calls_criteria(m, test_state) /\ ~Criteria(test_state.pred, m)
         THEN DriverResult("Fail", "keep", tasks, test_state, <<>>, "same")
         ELSE DriverResult("Keep", "keep", tasks, Ready, <<RunNext(i)>>, "no")
    ELSE DriverResult("Fail", "keep", tasks, test_state, <<>>, "same")

\* The handler of set_default_ask_response_behavior::<M>.
TestActor_default_ask(i, m) ==
    IF test_state.kind = "Ask"
    THEN IF TestActor_calls_criteria(m, test_state) /\ ~Criteria(test_state.pred, m)
         THEN DriverResult("Fail", "keep", tasks, test_state, <<>>, "same")
         ELSE DriverResult("Keep", "keep", tasks, test_state, <<RunNext(i)>>, "no")
    ELSE DriverResult("Fail", "keep", tasks, test_state, <<>>, "same")

DriverHandlers == {"t_run", "t_check", "t_tell", "t_ask"}

DriverEffect(i, h, m) ==
    CASE h = "t_run" -> TestActor_run_next(i)
      [] h = "t_check" -> TestActor_state_check(i, m)
      [] h = "t_tell" -> TestActor_default_tell(i, m)
      [] h = "t_ask" -> TestActor_default_ask(i, m)
      [] OTHER -> DriverResult("Keep", "keep", tasks, test_state, <<>>, "same")

HandlerEffect(h, m, s) ==
    CASE h = "inc"    -> Effect(s + 1, FALSE, "keep", "Keep", "none")
      [] h = "inc2"   -> Effect(s + 2, TRUE, "keep", "Keep", "none")
      [] h = "get"    -> Effect(s, TRUE, "keep", "Keep", "none")
      [] h = "swap"   -> Effect(s, FALSE, "keep", "Change", IF m.payload = "SwapAlt" THEN "Alt" ELSE "Empty")
      [] h = "boom"   -> Effect(s + 1, FALSE, "keep", "Fail", "none")
      [] h = "killboom" -> Effect(s, FALSE, "Kill", "Fail", "none")
      [] h = "panic"  -> Effect(s + 1, FALSE, "keep", "Panic", "none")
      [] h = "manage" -> Effect(s, FALSE, IF m.payload = "Kill" THEN "Kill" ELSE "Restart", "Keep", "none")
      [] h = "become" -> Effect(s, FALSE, "keep", "Change", "Empty")
      [] h = "check"  -> Effect(s, m.payload = "CheckIs0", "keep", "Keep", "none")
      [] h \in DriverHandlers ->
           Effect(s, FALSE, DriverEffect(Driver, h, m).flag, DriverEffect(Driver, h, m).result, "none")
      [] OTHER        -> Effect(s, FALSE, "keep", "Keep", "none")

\* BroadcastMessage { inner, addr }: addr is the reply-to address, or NoAddr.
NoAddr == -1
BroadcastMessage(inner, addr) == [inner |-> inner, addr |-> addr]

\* BroadcastMessage::get_message that leaves the reply-to address out.
BroadcastMessage_get_message_no_sender(bm, seq) == Message_without_sender(seq, bm.inner, 0)

\* BroadcastMessage::get_message: a clone of the payload in a new envelope.
BroadcastMessage_get_message(bm, seq) ==
    IF bm.addr = NoAddr
    THEN Message_without_sender(seq, bm.inner, 0)
    ELSE Message_with_sender(seq, bm.inner, 0, bm.addr)

\* ActorSystem::broadcast_tell / broadcast_ask: the loop over the entries of
\* reg, one addr.send(get_message()) per entry.
RECURSIVE ActorSystem_broadcast(_, _, _, _)
ActorSystem_broadcast(reg, names, bm, seq) ==
    IF names = {} THEN <<>>
    ELSE LET n == CHOOSE x \in names : TRUE
         IN (IF reg[n] = NoActor THEN <<>>
             ELSE <<Out(reg[n], BroadcastMessage_get_message(bm, seq), FALSE)>>)
            \o ActorSystem_broadcast(reg, names \ {n}, bm, seq)

\* The address a forwarding actor holds: that of the other actor of the pair.
Target(i) == IF i = 1 THEN 2 ELSE 1

\* A ball handler that sends the ball to its own address.
Ball_reply_to_self(i, m) ==
    Out(i, Message_with_sender(m.seq, IF m.payload = "Ping" THEN "Pong" ELSE "Ping", 0, m.sender),
        FALSE)

\* The ball handler: sender.ask(the other ball, ctx.get_addr()).
Ball_reply(i, m) ==
    Out(m.sender, Message_with_sender(m.seq, IF m.payload = "Ping" THEN "Pong" ELSE "Ping", 0, i),
        FALSE)

\* ActorContext::spawn / spawn_with_supervision / broadcast_tell /
\* broadcast_ask called by actor i: Err(ActorNotSpawnedYet) when the context
\* holds no system, otherwise the result ok of the system's function.
ActorContext_result(i, ok) == IF sys[i] = "None" THEN "ActorNotSpawnedYet" ELSE ok

\* ActorContext::query(n) called by actor i: None when the context holds no
\* system, otherwise ActorSystem::query(n), the registry's entry for n.
ActorContext_query(i, n) == IF sys[i] = "None" THEN NoActor ELSE registry[n]

\* ActorContext::broadcast_tell(p) called by actor i while it handles the
\* envelope numbered seq: the envelopes ActorSystem::broadcast_tell sends,
\* none when the context holds no system.
ActorContext_broadcast_tell(i, p, seq) ==
    IF ActorContext_result(i, "Ok") = "Ok"
    THEN ActorSystem_broadcast(registry, Names, BroadcastMessage(p, NoAddr), seq)
    ELSE <<>>

\* enable_state_checks with a handler that answers every check with true.
StateCheck_reply_always_true(m, s) ==
    Out(m.sender, Message_without_sender(m.seq, "Result", 1), FALSE)

\* The handler of enable_state_checks on StateCheckMessage::Check(fn):
\* reply_to.tell(StateCheckMessage::Result(fn(state))).
StateCheck_reply(m, s) ==
    Out(m.sender, Message_without_sender(m.seq, "Result", IF Criteria("is0", [val |-> s]) THEN 1 ELSE 0),
        FALSE)

\* The messages handler h of actor i sends when it is called with envelope m
\* on state s, in program order:
\*   fwd   - tells i32, asks Get (reply-to: itself) or tells i32 with a delay
\*   get, inc2 - reply_to.tell(value of the state)
\*   ball  - sender.ask(the other ball, ctx.get_addr())
\*   cast  - ctx.broadcast_tell(i32)
\*   check - the result of the state check, to the reply-to address
\*   emit  - tells the value of the state, or asks Pong, to the actor
\*           ctx.query("test_actor") returns
\*   the TestActor's handlers - the sends of DriverEffect
\* A reply to the peer's address is recorded in replies, not sent to an actor.
UserSends(i, h, m, s) ==
    CASE h = "fwd" ->
           <<Out(Target(i),
                 IF m.payload = "FwdAsk"
                 THEN Message_with_sender(m.seq, "Get", 0, i)
                 ELSE Message_without_sender(m.seq, "Inc", 0),
                 m.payload = "FwdDelayed")>>
      [] h \in {"get", "inc2"} /\ m.sender # NoActor ->
           <<Out(m.sender, Message_without_sender(m.seq, "Val", HandlerEffect(h, m, s).state), FALSE)>>
      [] h = "ball" /\ m.sender # NoActor -> <<Ball_reply(i, m)>>
      [] h = "cast" -> ActorContext_broadcast_tell(i, "Inc", m.seq)
      [] h = "check" /\ m.payload = "CheckIs0" /\ m.sender # NoActor ->
           <<StateCheck_reply(m, s)>>
      [] h = "emit" /\ ActorContext_query(i, "test_actor") # NoActor ->
           <<Out(ActorContext_query(i, "test_actor"),
                 IF m.payload = "Emit"
                 THEN Message_without_sender(m.seq, "Val", s)
                 ELSE Message_with_sender(m.seq, "Pong", 0, i),
                 FALSE)>>
      [] h \in DriverHandlers -> DriverEffect(i, h, m).outs
      [] OTHER -> <<>>

\* The wrappers BehaviorBuilder puts around a user handler. The on_ask wrapper
\* returns Ok(None) without calling the handler when the envelope has no
\* reply-to; the on_tell wrapper ignores the reply-to. A missing handler
\* ("none") is Behavior::handle's Ok(None).
AskWrapped == {"get", "swap", "inc2", "ball", "check", "t_ask"}

\* HandlerCall with a missing handler treated as an error.
HandlerCall_unknown_fails(h, m, s) ==
    IF h = "none" THEN Effect(s, FALSE, "keep", "Fail", "none")
    ELSE IF h \in AskWrapped /\ ~m.ask THEN Effect(s, FALSE, "keep", "Keep", "none")
    ELSE HandlerEffect(h, m, s)

HandlerCall(h, m, s) ==
    IF h = "none" \/ (h \in AskWrapped /\ ~m.ask)
    THEN Effect(s, FALSE, "keep", "Keep", "none")
    ELSE HandlerEffect(h, m, s)

\* The sends of the same call: none when the wrapper does not call the handler.
HandlerSends(i, h, m, s) ==
    IF h = "none" \/ (h \in AskWrapped /\ ~m.ask) THEN <<>> ELSE UserSends(i, h, m, s)

\* ----------------------------------------------------------- construction
InitState == 0
InitBehavior == "Main"
NoBackup == [state |-> 0, behavior |-> "none"]
HookNames == {"on_start", "on_kill", "on_error", "on_restart"}
NoHooks == [h \in HookNames |-> 0]

\* Actor::new for every actor object (ActorTestBuilder::build for the
\* TestActor); ActorSystem::new.
Init ==
    /\ mailbox \in [Actors -> {"Unbounded", "Bounded"}]
    /\ queue = [i \in Actors |-> <<>>]
    /\ sendTasks = [i \in Actors |-> {}]
    /\ sent = 0
    /\ state = [i \in Actors |-> InitState]
    /\ behavior \in [Actors -> BehaviorIds]
    /\ flag = [i \in Actors |-> "Run"]
    /\ call = [i \in Actors |-> "none"]
    /\ strategy = [i \in Actors |-> "none"]
    /\ name = [i \in Actors |-> "a"]
    /\ pc = [i \in Actors |-> "none"]
    /\ cur = [i \in Actors |-> NoMsg]
    /\ handler = [i \in Actors |-> "idle"]
    /\ exitReason = [i \in Actors |-> "none"]
    /\ backup = [i \in Actors |-> NoBackup]
    /\ registry = [n \in Names |-> NoActor]
    /\ joined = [i \in Actors |-> FALSE]
    /\ aborted = [i \in Actors |-> FALSE]
    /\ stopPc = "idle"
    /\ stops = 0
    /\ executing = [i \in Actors |-> 0]
    /\ hooks = [i \in Actors |-> NoHooks]
    /\ hookBy = [i \in Actors |-> "none"]
    /\ installed = behavior
    /\ lastSeq = [i \in Actors |-> 0]
    /\ replies = {}
    /\ restarted = [i \in Actors |-> FALSE]
    /\ dropped = FALSE
    /\ startPc = "none"
    /\ workers \in 1..MaxWorkers
    /\ delayed = [i \in Actors |-> {}]
    /\ plan \in Plans
    /\ tasks = ActorTestBuilder_build(plan)
    /\ test_state = Ready
    /\ testPc = "none"
    /\ awaiting = FALSE
    /\ casts = 0
    /\ castTo = {}
    /\ lastBy = NoActor
    /\ sys = [i \in Actors |-> "None"]

\* --------------------------------------------------------------- helpers
\* A mailbox that outlives the actor's task.
Closed_only_rejected(i) == call[i] = "err"

\* The receiving half of the mailbox is gone: the actor was dropped by a
\* rejected spawn, or its task has ended.
Closed(i) == call[i] = "err" \/ pc[i] \in {"done", "panicked", "cancelled"}

\* Hooks of which only on_start is ever called.
HookRuns_on_start_only(i, h) == h = "on_start" /\ h \in Behavior(behavior[i]).hooks

\* The lifecycle hook h of the actor's current behavior, if it is set.
HookRuns(i, h) == h \in Behavior(behavior[i]).hooks

\* The messages lifecycle hook h of the actor's current behavior sends: the
\* on_start hook of the TestActor tells itself RunNext.
HookSends(i, h) ==
    IF HookRuns(i, h) /\ behavior[i] = "Test" /\ h = "on_start" THEN <<RunNext(i)>> ELSE <<>>

\* ---------------------------------------------------------------- sends
\* Addr::tell / Addr::ask by the external sender, through SenderType::send:
\* an unbounded send enqueues at once (and is discarded when the receiver is
\* gone); a bounded send only spawns a task that will do the enqueue.
\* buf is the content of the channels and of the tasks that feed them.
Buffers == [queue |-> queue, sendTasks |-> sendTasks, delayed |-> delayed]

\* A bounded send that enqueues in place, whatever the channel holds.
SenderType_send_in_place(buf, i, m) ==
    [buf EXCEPT !.queue[i] = IF Closed(i) THEN @ ELSE Append(@, m)]

SenderType_send(buf, i, m) ==
    IF mailbox[i] = "Unbounded"
    THEN [buf EXCEPT !.queue[i] = IF Closed(i) THEN @ ELSE Append(@, m)]
    ELSE [buf EXCEPT !.sendTasks[i] = @ \cup {m}]

\* Addr::send_with_delay: spawns a task that sleeps and then sends.
Addr_send_with_delay(buf, i, m) == [buf EXCEPT !.delayed[i] = @ \cup {m}]

Addr_send(buf, o) ==
    IF o.delay THEN Addr_send_with_delay(buf, o.to, o.msg)
    ELSE SenderType_send(buf, o.to, o.msg)

\* The sends of one handler, made in program order.
RECURSIVE PostAll(_, _)
PostAll(buf, outs) ==
    IF outs = <<>> THEN buf ELSE PostAll(Addr_send(buf, Head(outs)), Tail(outs))

\* The peer sends envelope m to actor i.
SendEnvelope(i, m, max) ==
    /\ ~dropped
    /\ sent < max
    /\ sent' = sent + 1
    /\ LET buf == SenderType_send(Buffers, i, m)
       IN /\ queue' = buf.queue
          /\ sendTasks' = buf.sendTasks
    /\ UNCHANGED <<mailbox, state, behavior, flag, call, strategy, name, pc, cur,
                   handler, exitReason, backup, registry, joined, aborted, stopPc,
                   stops, executing, hooks, hookBy, installed, lastSeq, replies,
                   restarted, dropped, startPc, workers, delayed, driverVars, castVars, lastBy, sys>>

Send(i, p, ask, max) == SendEnvelope(i, Message(sent + 1, p, ask), max)

\* The task of a bounded send: tx.send(msg).await completes when the channel
\* has room, or fails (the message is dropped) when the receiver is gone.
SendTaskRun(i, m) ==
    /\ m \in sendTasks[i]
    /\ Closed(i) \/ Len(queue[i]) < BufferSize
    /\ sendTasks' = [sendTasks EXCEPT ![i] = @ \ {m}]
    /\ queue' = [queue EXCEPT ![i] = IF Closed(i) THEN @ ELSE Append(@, m)]
    /\ UNCHANGED <<mailbox, sent, state, behavior, flag, call, strategy, name, pc,
                   cur, handler, exitReason, backup, registry, joined, aborted,
                   stopPc, stops, executing, hooks, hookBy, installed, lastSeq,
                   replies, restarted, dropped, startPc, workers, delayed, driverVars, castVars, lastBy, sys>>

\* ActorSystem::broadcast_tell(p) (addr = NoAddr) / broadcast_ask(p, addr)
\* called by the peer.
Broadcast(p, addr, max) ==
    /\ sent < max
    /\ sent' = sent + 1
    /\ casts' = casts + 1
    /\ castTo' = {registry[n] : n \in Names} \ {NoActor}
    /\ LET buf == PostAll(Buffers,
                          ActorSystem_broadcast(registry, Names, BroadcastMessage(p, addr), sent + 1))
       IN /\ queue' = buf.queue
          /\ sendTasks' = buf.sendTasks
    /\ UNCHANGED <<mailbox, state, behavior, flag, call, strategy, name, pc, cur,
                   handler, exitReason, backup, registry, joined, aborted, stopPc,
                   stops, executing, hooks, hookBy, installed, lastSeq, replies,
                   restarted, dropped, startPc, workers, delayed, driverVars, lastBy, sys>>

\* The task of a delayed send: sleep(delay) is over and the task sends.
DelayFire(i, m) ==
    /\ m \in delayed[i]
    /\ LET buf == SenderType_send([Buffers EXCEPT !.delayed[i] = @ \ {m}], i, m)
       IN /\ queue' = buf.queue
          /\ sendTasks' = buf.sendTasks
          /\ delayed' = buf.delayed
    /\ UNCHANGED <<mailbox, sent, state, behavior, flag, call, strategy, name, pc,
                   cur, handler, exitReason, backup, registry, joined, aborted,
                   stopPc, stops, executing, hooks, hookBy, installed, lastSeq,
                   replies, restarted, dropped, startPc, workers, driverVars, castVars, lastBy, sys>>

\* ---------------------------------------------------------------- spawn
\* A set_actor_sys that leaves the context as ActorContext::new made it.
ActorContext_set_actor_sys_skipped(old) == old

\* ActorContext::set_actor_sys (through Actor::set_actor_sys): the context
\* holds Some(system) from now on; no other code assigns the field.
ActorContext_set_actor_sys(old) == "Some"

\* A spawn that inserts the address before it checks the name.
SpawnCheck_insert_first(i, n, strat) ==
    /\ call[i] = "none"
    /\ name' = [name EXCEPT ![i] = n]
    /\ strategy' = [strategy EXCEPT ![i] = strat]
    /\ call' = [call EXCEPT ![i] = IF registry[n] # NoActor THEN "err" ELSE "checked"]
    /\ queue' = [queue EXCEPT ![i] = IF registry[n] # NoActor THEN <<>> ELSE @]
    /\ registry' = [registry EXCEPT ![n] = i]
    /\ UNCHANGED <<mailbox, sendTasks, sent, state, behavior, flag, pc, cur, handler,
                   exitReason, backup, joined, aborted, stopPc, stops, executing,
                   hooks, hookBy, installed, lastSeq, replies, restarted, dropped,
                   startPc, workers, delayed, driverVars, castVars, lastBy, sys>>

\* ActorSystem::spawn / spawn_with_supervision, first part: the
\* contains_key check. On Err the actor is dropped with its mailbox.
SpawnCheck(i, n, strat) ==
    /\ call[i] = "none"
    /\ name' = [name EXCEPT ![i] = n]
    /\ strategy' = [strategy EXCEPT ![i] = strat]
    /\ call' = [call EXCEPT ![i] = IF registry[n] # NoActor THEN "err" ELSE "checked"]
    /\ queue' = [queue EXCEPT ![i] = IF registry[n] # NoActor THEN <<>> ELSE @]
    /\ UNCHANGED <<mailbox, sendTasks, sent, state, behavior, flag, pc, cur, handler,
                   exitReason, backup, registry, joined, aborted, stopPc, stops,
                   executing, hooks, hookBy, installed, lastSeq, replies, restarted, dropped, startPc, workers, delayed, driverVars, castVars, lastBy, sys>>

\* Actor::create_backup
Actor_create_backup(i) == [state |-> state[i], behavior |-> behavior[i]]

\* Second part: set_actor_sys, (create_backup,) registry.insert and
\* tokio::spawn of the run task.
SpawnInsert(i) ==
    /\ call[i] = "checked"
    /\ backup' = [backup EXCEPT ![i] =
                    IF strategy[i] = "none" THEN @ ELSE Actor_create_backup(i)]
    /\ registry' = [registry EXCEPT ![name[i]] = i]
    /\ pc' = [pc EXCEPT ![i] = "start"]
    /\ call' = [call EXCEPT ![i] = "inserted"]
    /\ sys' = [sys EXCEPT ![i] = ActorContext_set_actor_sys(@)]
    /\ UNCHANGED <<mailbox, queue, sendTasks, sent, state, behavior, flag, strategy,
                   name, cur, handler, exitReason, joined, aborted, stopPc, stops,
                   executing, hooks, hookBy, installed, lastSeq, replies, restarted, dropped, startPc, workers, delayed, driverVars, castVars, lastBy>>

\* Third part: the join handle is pushed to join_handles and Ok(()) returned.
SpawnPush(i) ==
    /\ call[i] = "inserted"
    /\ joined' = [joined EXCEPT ![i] = TRUE]
    /\ call' = [call EXCEPT ![i] = "ok"]
    /\ UNCHANGED <<mailbox, queue, sendTasks, sent, state, behavior, flag, strategy,
                   name, pc, cur, handler, exitReason, backup, registry, aborted,
                   stopPc, stops, executing, hooks, hookBy, installed, lastSeq,
                   replies, restarted, dropped, startPc, workers, delayed, driverVars, castVars, lastBy, sys>>

\* ------------------------------------------------------------- run loop
\* Actor::run, entry: on_start.
RunStart(i) ==
    /\ pc[i] = "start"
    /\ hooks' = [hooks EXCEPT ![i] =
                   [NoHooks EXCEPT !["on_start"] = IF HookRuns(i, "on_start") THEN 1 ELSE 0]]
    /\ hookBy' = [hookBy EXCEPT ![i] = IF HookRuns(i, "on_start") THEN behavior[i] ELSE @]
    /\ pc' = [pc EXCEPT ![i] = "loop"]
    /\ LET buf == PostAll(Buffers, HookSends(i, "on_start"))
       IN /\ queue' = buf.queue
          /\ sendTasks' = buf.sendTasks
          /\ delayed' = buf.delayed
    /\ UNCHANGED <<mailbox, sent, state, behavior, flag, call,
                   strategy, name, cur, handler, exitReason, backup, registry, joined,
                   aborted, stopPc, stops, executing, installed, lastSeq, replies,
                   restarted, dropped, startPc, workers, driverVars, castVars, lastBy, sys>>

\* A run loop that receives the next message while a handler still runs.
Receiving_while_handling(i) == pc[i] \in {"loop", "handling"} /\ flag[i] = "Run"

\* Actor::run at the top of the loop with flag Run: the task is in recv().
Receiving(i) == pc[i] = "loop" /\ flag[i] = "Run"

\* Actor::run, flag Run: mailbox.recv() yields the next message and
\* Actor::handle passes it to Behavior::handle, which picks the handler.
HandlerBegin(i) ==
    /\ Receiving(i)
    /\ queue[i] # <<>>
    /\ cur' = [cur EXCEPT ![i] = Head(queue[i])]
    /\ queue' = [queue EXCEPT ![i] = Tail(@)]
    /\ handler' = [handler EXCEPT ![i] = Behavior_handle(behavior[i], Head(queue[i]))]
    /\ lastSeq' = [lastSeq EXCEPT ![i] = Head(queue[i]).seq]
    /\ executing' = [executing EXCEPT ![i] = @ + 1]
    /\ pc' = [pc EXCEPT ![i] = "handling"]
    /\ lastBy' = i
    /\ UNCHANGED <<mailbox, sendTasks, sent, state, behavior, flag, call, strategy,
                   name, exitReason, backup, registry, joined, aborted, stopPc, stops,
                   hooks, hookBy, installed, replies, restarted, dropped, startPc,
                   workers, delayed, driverVars, castVars, sys>>

\* Actor::handle that drops the behavior returned by Change.
Actor_handle_ignore_change(old, eff) == old

\* Actor::handle: the behavior the actor holds after the handler returned eff.
Actor_handle(old, eff) == IF eff.result = "Change" THEN eff.change ELSE old

\* Actor::run that goes on with the loop after an error.
RunAfterHandle_no_exit(eff) == "loop"

\* Actor::run after Actor::handle: leave the loop on an error.
RunAfterHandle(eff) == IF eff.result = "Fail" THEN "exited" ELSE "loop"

\* The handler returns (or unwinds): Actor::handle installs a changed
\* behavior; on Err Actor::run calls on_error and returns ExitReason::Error.
\* A panic unwinds through Actor::run and ends the task; the actor is dropped.
HandlerEnd(i) ==
    /\ pc[i] = "handling"
    /\ LET eff == HandlerCall(handler[i], cur[i], state[i])
           failed == RunAfterHandle(eff) = "exited"
       IN IF eff.result = "Panic"
          THEN /\ pc' = [pc EXCEPT ![i] = "panicked"]
               /\ queue' = [queue EXCEPT ![i] = <<>>]
               /\ UNCHANGED <<state, behavior, flag, installed, replies, hooks,
                              hookBy, exitReason, sendTasks, delayed, tasks, test_state,
                              awaiting>>
          ELSE /\ state' = [state EXCEPT ![i] = eff.state]
               /\ replies' = IF eff.reply THEN replies \cup {<<i, cur[i].seq>>} ELSE replies
               /\ flag' = [flag EXCEPT ![i] = IF eff.flag = "keep" THEN @ ELSE eff.flag]
               /\ behavior' = [behavior EXCEPT ![i] = Actor_handle(@, eff)]
               /\ installed' = [installed EXCEPT ![i] =
                                  IF eff.result = "Change" THEN eff.change ELSE @]
               /\ hooks' = [hooks EXCEPT ![i]["on_error"] =
                              IF failed /\ HookRuns(i, "on_error") THEN @ + 1 ELSE @]
               /\ hookBy' = [hookBy EXCEPT ![i] =
                               IF failed /\ HookRuns(i, "on_error") THEN behavior[i] ELSE @]
               /\ exitReason' = [exitReason EXCEPT ![i] = IF failed THEN "Error" ELSE @]
               /\ pc' = [pc EXCEPT ![i] = RunAfterHandle(eff)]
               /\ LET buf == PostAll(Buffers, HandlerSends(i, handler[i], cur[i], state[i]))
                  IN /\ queue' = buf.queue
                     /\ sendTasks' = buf.sendTasks
                     /\ delayed' = buf.delayed
               /\ IF handler[i] \in DriverHandlers
                  THEN LET de == DriverEffect(i, handler[i], cur[i])
                       IN /\ tasks' = de.tasks
                          /\ test_state' = de.test_state
                          /\ awaiting' = IF de.waits = "same" THEN awaiting ELSE de.waits = "yes"
                  ELSE UNCHANGED <<tasks, test_state, awaiting>>
    /\ executing' = [executing EXCEPT ![i] = @ - 1]
    /\ UNCHANGED <<mailbox, sent, call, strategy, name, cur, handler,
                   backup, registry, joined, aborted, stopPc, stops, lastSeq,
                   restarted, dropped, startPc, workers, plan, testPc, castVars, lastBy, sys>>

\* Actor::run that treats every flag other than Run as Kill.
ExitOnFlag_always_kill(i) ==
    /\ pc[i] = "loop"
    /\ flag[i] \in {"Kill", "Restart"}
    /\ hooks' = [hooks EXCEPT ![i]["on_kill"] = IF HookRuns(i, "on_kill") THEN @ + 1 ELSE @]
    /\ hookBy' = [hookBy EXCEPT ![i] = IF HookRuns(i, "on_kill") THEN behavior[i] ELSE @]
    /\ exitReason' = [exitReason EXCEPT ![i] = "Kill"]
    /\ pc' = [pc EXCEPT ![i] = "exited"]
    /\ UNCHANGED <<mailbox, queue, sendTasks, sent, state, behavior, flag, call,
                   strategy, name, cur, handler, backup, registry, joined, aborted,
                   stopPc, stops, executing, installed, lastSeq, replies, restarted,
                   dropped, startPc, workers, delayed, driverVars, castVars, lastBy, sys>>

\* Actor::run, flag Kill or Restart: on_kill / on_restart, then return.
ExitOnFlag(i) ==
    /\ pc[i] = "loop"
    /\ flag[i] \in {"Kill", "Restart"}
    /\ LET h == IF flag[i] = "Kill" THEN "on_kill" ELSE "on_restart"
       IN /\ hooks' = [hooks EXCEPT ![i][h] = IF HookRuns(i, h) THEN @ + 1 ELSE @]
          /\ hookBy' = [hookBy EXCEPT ![i] = IF HookRuns(i, h) THEN behavior[i] ELSE @]
    /\ exitReason' = [exitReason EXCEPT ![i] = flag[i]]
    /\ pc' = [pc EXCEPT ![i] = "exited"]
    /\ UNCHANGED <<mailbox, queue, sendTasks, sent, state, behavior, flag, call,
                   strategy, name, cur, handler, backup, registry, joined, aborted,
                   stopPc, stops, executing, installed, lastSeq, replies, restarted, dropped, startPc, workers, delayed, driverVars, castVars, lastBy, sys>>

\* ---------------------------------------------------- exit and supervision
\* A task of ActorSystem::spawn that keeps the name of an actor that asked
\* for a restart.
UnsupervisedExit_keeps_restarting(i) ==
    /\ pc[i] = "exited"
    /\ strategy[i] = "none"
    /\ registry' = IF exitReason[i] = "Restart" THEN registry
                   ELSE [registry EXCEPT ![name[i]] = NoActor]
    /\ pc' = [pc EXCEPT ![i] = "done"]
    /\ queue' = [queue EXCEPT ![i] = <<>>]
    /\ UNCHANGED <<mailbox, sendTasks, sent, state, behavior, flag, call, strategy,
                   name, cur, handler, exitReason, backup, joined, aborted, stopPc,
                   stops, executing, hooks, hookBy, installed, lastSeq, replies,
                   restarted, dropped, startPc, workers, delayed, driverVars, castVars, lastBy, sys>>

\* The task of ActorSystem::spawn after run() returned: registry.remove for
\* every exit reason; the task ends and the actor is dropped.
UnsupervisedExit(i) ==
    /\ pc[i] = "exited"
    /\ strategy[i] = "none"
    /\ registry' = [registry EXCEPT ![name[i]] = NoActor]
    /\ pc' = [pc EXCEPT ![i] = "done"]
    /\ queue' = [queue EXCEPT ![i] = <<>>]
    /\ UNCHANGED <<mailbox, sendTasks, sent, state, behavior, flag, call, strategy,
                   name, cur, handler, exitReason, backup, joined, aborted, stopPc,
                   stops, executing, hooks, hookBy, installed, lastSeq, replies,
                   restarted, dropped, startPc, workers, delayed, driverVars, castVars, lastBy, sys>>

\* Actor::apply_backup that restores the behavior only.
Actor_apply_backup_behavior_only(i) == [state |-> state[i], behavior |-> backup[i].behavior]

\* Actor::apply_backup: the state and behavior the actor holds afterwards.
Actor_apply_backup(i) == [state |-> backup[i].state, behavior |-> backup[i].behavior]

\* SimpleRestartStrategy::apply that gives up on an error.
SimpleRestartStrategy_apply_exit_on_error(reason) ==
    IF reason \in {"Kill", "Error"} THEN "Exit" ELSE "Restart"

\* SimpleRestartStrategy::apply: the decision per exit reason.
SimpleRestartStrategy_apply(reason) == IF reason = "Kill" THEN "Exit" ELSE "Restart"

\* The task of ActorSystem::spawn_with_supervision after run() returned: on
\* Exit as above; on Restart the strategy has applied the backup
\* (Actor::apply_backup) and the loop calls run() again.
Supervise(i) ==
    /\ pc[i] = "exited"
    /\ strategy[i] = "SimpleRestart"
    /\ IF SimpleRestartStrategy_apply(exitReason[i]) = "Exit"
       THEN /\ registry' = [registry EXCEPT ![name[i]] = NoActor]
            /\ pc' = [pc EXCEPT ![i] = "done"]
            /\ queue' = [queue EXCEPT ![i] = <<>>]
            /\ UNCHANGED <<state, behavior, installed, restarted, exitReason>>
       ELSE /\ state' = [state EXCEPT ![i] = Actor_apply_backup(i).state]
            /\ behavior' = [behavior EXCEPT ![i] = Actor_apply_backup(i).behavior]
            /\ installed' = [installed EXCEPT ![i] = InitBehavior]
            /\ restarted' = [restarted EXCEPT ![i] = TRUE]
            /\ exitReason' = [exitReason EXCEPT ![i] = "none"]
            /\ pc' = [pc EXCEPT ![i] = "start"]
            /\ UNCHANGED <<registry, queue>>
    /\ UNCHANGED <<mailbox, sendTasks, sent, flag, call, strategy, name, cur, handler,
                   backup, joined, aborted, stopPc, stops, executing, hooks, hookBy,
                   lastSeq, replies, dropped, startPc, workers, delayed, driverVars, castVars, lastBy, sys>>

\* ----------------------------------------------------------------- stop
\* ActorSystem::stop, first statement: registry.clear().
StopClear ==
    /\ stopPc = "idle"
    /\ stops < MaxStops
    /\ stops' = stops + 1
    /\ registry' = [n \in Names |-> NoActor]
    /\ stopPc' = "cleared"
    /\ UNCHANGED <<mailbox, queue, sendTasks, sent, state, behavior, flag, call,
                   strategy, name, pc, cur, handler, exitReason, backup, joined,
                   aborted, executing, hooks, hookBy, installed, lastSeq, replies,
                   restarted, dropped, startPc, workers, delayed, driverVars, castVars, lastBy, sys>>

\* A task that is live (spawned and not ended).
Live(i) == pc[i] \in {"start", "loop", "handling", "exited", "delay"}

\* A task that may be suspended (not yet polled, waiting in recv, or in the
\* sleep of RestartDelayed): abort cancels it at once. A task in the middle of
\* a poll only gets the abort mark and runs on until it next suspends.
MaySuspend(i) == pc[i] \in {"start", "delay"} \/ (pc[i] = "loop" /\ flag[i] = "Run")

\* ActorSystem::stop, second part: abort() on every handle in join_handles.
StopAbort ==
    /\ stopPc = "cleared"
    /\ stopPc' = "idle"
    /\ \E C \in SUBSET {i \in Actors : joined[i] /\ Live(i) /\ MaySuspend(i)} :
         /\ pc' = [i \in Actors |-> IF i \in C THEN "cancelled" ELSE pc[i]]
         /\ queue' = [i \in Actors |-> IF i \in C THEN <<>> ELSE queue[i]]
         /\ aborted' = [i \in Actors |->
                          aborted[i] \/ (joined[i] /\ Live(i) /\ i \notin C)]
    /\ UNCHANGED <<mailbox, sendTasks, sent, state, behavior, flag, call, strategy,
                   name, cur, handler, exitReason, backup, registry, joined, stops,
                   executing, hooks, hookBy, installed, lastSeq, replies, restarted, dropped, startPc, workers, delayed, driverVars, castVars, lastBy, sys>>

\* An aborted task reaches recv() with nothing to receive, or the sleep of
\* RestartDelayed: it suspends and is cancelled; the actor is dropped.
Cancel(i) ==
    /\ aborted[i]
    /\ \/ pc[i] = "loop" /\ flag[i] = "Run" /\ queue[i] = <<>>
       \/ pc[i] = "delay"
    /\ pc' = [pc EXCEPT ![i] = "cancelled"]
    /\ UNCHANGED <<mailbox, queue, sendTasks, sent, state, behavior, flag, call,
                   strategy, name, cur, handler, exitReason, backup, registry, joined,
                   aborted, stopPc, stops, executing, hooks, hookBy, installed,
                   lastSeq, replies, restarted, dropped, startPc, workers, delayed, driverVars, castVars, lastBy, sys>>

\* ------------------------------------------------- delayed supervision
\* A user strategy (impl SupervisionStrategy) that answers like
\* SimpleRestartStrategy but with RestartDelayed(d) in place of Restart.
DelayedRestartStrategy_apply(reason) == IF reason = "Kill" THEN "Exit" ELSE "RestartDelayed"

\* The task of ActorSystem::spawn_with_supervision after run() returned, for
\* that strategy: on RestartDelayed the task sleeps before the next run().
SuperviseDelayed(i) ==
    /\ pc[i] = "exited"
    /\ strategy[i] = "DelayedRestart"
    /\ IF DelayedRestartStrategy_apply(exitReason[i]) = "Exit"
       THEN /\ registry' = [registry EXCEPT ![name[i]] = NoActor]
            /\ pc' = [pc EXCEPT ![i] = "done"]
            /\ queue' = [queue EXCEPT ![i] = <<>>]
            /\ UNCHANGED <<state, behavior, installed, restarted, exitReason>>
       ELSE /\ state' = [state EXCEPT ![i] = Actor_apply_backup(i).state]
            /\ behavior' = [behavior EXCEPT ![i] = Actor_apply_backup(i).behavior]
            /\ installed' = [installed EXCEPT ![i] = InitBehavior]
            /\ restarted' = [restarted EXCEPT ![i] = TRUE]
            /\ exitReason' = [exitReason EXCEPT ![i] = "none"]
            /\ pc' = [pc EXCEPT ![i] = "delay"]
            /\ UNCHANGED <<registry, queue>>
    /\ UNCHANGED <<mailbox, sendTasks, sent, flag, call, strategy, name, cur, handler,
                   backup, joined, aborted, stopPc, stops, executing, hooks, hookBy,
                   lastSeq, replies, dropped, startPc, workers, delayed, driverVars, castVars, lastBy, sys>>

\* sleep(delay).await is over: the supervision loop calls run() again.
DelayEnd(i) ==
    /\ pc[i] = "delay"
    /\ pc' = [pc EXCEPT ![i] = "start"]
    /\ UNCHANGED <<mailbox, queue, sendTasks, sent, state, behavior, flag, call,
                   strategy, name, cur, handler, exitReason, backup, registry, joined,
                   aborted, stopPc, stops, executing, hooks, hookBy, installed,
                   lastSeq, replies, restarted, dropped, startPc, workers, delayed, driverVars, castVars, lastBy, sys>>

\* ------------------------------------------------------ address holders
\* The holders of a sending half of actor i's channel: the actor's own
\* fields (Actor.addr, ActorContext.addr, Mailbox.addr), the registry entry,
\* and the peer until it drops its clones. The actor's fields live as long
\* as its task.
Senders(i) ==
    (IF Closed(i) THEN {} ELSE {"Actor.addr", "ActorContext.addr", "Mailbox.addr"})
    \cup (IF registry[name[i]] = i THEN {"registry"} ELSE {})
    \cup (IF dropped THEN {} ELSE {"peer"})

\* Queue::recv returns None only when the buffer is empty and every sending
\* half is dropped.
Queue_recv_none(i) == queue[i] = <<>> /\ Senders(i) = {}

\* The peer drops every clone of the addresses it holds.
DropAddr ==
    /\ ~dropped
    /\ dropped' = TRUE
    /\ UNCHANGED <<mailbox, queue, sendTasks, sent, state, behavior, flag, call,
                   strategy, name, pc, cur, handler, exitReason, backup, registry,
                   joined, aborted, stopPc, stops, executing, hooks, hookBy, installed,
                   lastSeq, replies, restarted, startPc, workers, delayed, driverVars, castVars, lastBy, sys>>

\* ---------------------------------------------------------------- start
\* A task that is in the middle of a poll holds a worker until it suspends or
\* ends; the caller that spins in start() holds one until start() returns.
OnWorker(i) == Live(i) /\ ~MaySuspend(i)
Busy == Cardinality({i \in Actors : OnWorker(i)}) + (IF startPc = "waiting" THEN 1 ELSE 0)

\* The task of actor i can take a step: it holds a worker or one is free.
Runnable(i) == OnWorker(i) \/ Busy < workers

\* ActorSystem::start is called on a free worker: the caller enters
\* `while registry.len() > 0 {}`, a loop without an await, so it keeps the
\* worker it runs on.
StartCall ==
    /\ startPc = "none"
    /\ Busy < workers
    /\ startPc' = "waiting"
    /\ UNCHANGED <<mailbox, queue, sendTasks, sent, state, behavior, flag, call,
                   strategy, name, pc, cur, handler, exitReason, backup, registry,
                   joined, aborted, stopPc, stops, executing, hooks, hookBy, installed,
                   lastSeq, replies, restarted, dropped, workers, delayed, driverVars, castVars, lastBy, sys>>

\* The loop of start() finds registry.len() = 0 and start() returns.
StartReturn ==
    /\ startPc = "waiting"
    /\ \A n \in Names : registry[n] = NoActor
    /\ startPc' = "returned"
    /\ UNCHANGED <<mailbox, queue, sendTasks, sent, state, behavior, flag, call,
                   strategy, name, pc, cur, handler, exitReason, backup, registry,
                   joined, aborted, stopPc, stops, executing, hooks, hookBy, installed,
                   lastSeq, replies, restarted, dropped, workers, delayed, driverVars, castVars, lastBy, sys>>

\* ------------------------------------------------------------------ spec
Strategies == {"none", "SimpleRestart"}

\* The steps of one actor's spawn call and run task.
ActorStep(i) ==
    \/ \E strat \in Strategies, n \in NamesOf(i) : SpawnCheck(i, n, strat)
    \/ SpawnInsert(i)
    \/ SpawnPush(i)
    \/ RunStart(i)
    \/ HandlerBegin(i)
    \/ HandlerEnd(i)
    \/ ExitOnFlag(i)
    \/ UnsupervisedExit(i)
    \/ Supervise(i)

\* Every actor is built with the behavior Main.
AllMain == behavior = [i \in Actors |-> InitBehavior]

\* No test is defined: the builder of the TestActor got no call.
NoTest == plan = <<>>

\* One actor and a peer that sends it every kind of message.
Solo == {1}

InitSolo ==
    /\ NoTest
    /\ AllMain
    /\ workers = MaxWorkers
    /\ mailbox \in {f \in [Actors -> {"Unbounded", "Bounded"}] : \A i \in Actors \ Solo : f[i] = "Unbounded"}
    /\ Init

Next ==
    \/ \E i \in Solo, k \in Sends : Send(i, k[1], k[2], MaxSend)
    \/ \E i \in Solo : \E m \in sendTasks[i] : SendTaskRun(i, m)
    \/ \E i \in Solo : ActorStep(i)

Spec == InitSolo /\ [][Next]_vars

\* Two actors spawned concurrently, a peer that sends them a few kinds of
\* message, and a caller of stop().
SystemSends == {<<"Inc", FALSE>>, <<"Boom", FALSE>>, <<"Panic", FALSE>>, <<"Kill", FALSE>>}

Pair == {1, 2}

NextSystem ==
    \/ \E i \in Pair, k \in SystemSends : Send(i, k[1], k[2], MaxSystemSend)
    \/ \E i \in Pair : ActorStep(i)
    \/ StopClear
    \/ StopAbort
    \/ \E i \in Pair : Cancel(i)

InitSystem == NoTest /\ AllMain /\ workers = MaxWorkers /\ mailbox = [i \in Actors |-> "Unbounded"] /\ Init

SpecSystem == InitSystem /\ [][NextSystem]_vars

\* One supervised or unsupervised actor through its lives: a peer that sends
\* it the messages that end a life and then drops its addresses; the
\* scheduler runs a task that is ready (weak fairness of the task's steps).
LifeSends ==
    {<<"Inc", FALSE>>, <<"Boom", FALSE>>, <<"KillBoom", FALSE>>, <<"Kill", FALSE>>,
     <<"Restart", FALSE>>, <<"SwapEmpty", TRUE>>}

LifeStrategies == Strategies \cup {"DelayedRestart"}

\* The steps of the spawn call made for an actor, and of its run task.
SpawnStep(i, strats) ==
    \/ \E strat \in strats, n \in NamesOf(i) : SpawnCheck(i, n, strat)
    \/ SpawnInsert(i)
    \/ SpawnPush(i)

TaskStep(i) ==
    \/ RunStart(i)
    \/ HandlerBegin(i)
    \/ HandlerEnd(i)
    \/ ExitOnFlag(i)
    \/ UnsupervisedExit(i)
    \/ Supervise(i)

DelayedTaskStep(i) == SuperviseDelayed(i) \/ DelayEnd(i)

\* The steps of the task of ActorSystem::spawn (no supervision).
PlainTaskStep(i) ==
    \/ RunStart(i)
    \/ HandlerBegin(i)
    \/ HandlerEnd(i)
    \/ ExitOnFlag(i)
    \/ UnsupervisedExit(i)

NextLife ==
    \/ \E i \in Solo, k \in LifeSends : Send(i, k[1], k[2], MaxSend)
    \/ DropAddr
    \/ \E i \in Solo : SpawnStep(i, LifeStrategies)
    \/ \E i \in Solo : TaskStep(i)
    \/ \E i \in Solo : DelayedTaskStep(i)

InitLife == NoTest /\ AllMain /\ workers = MaxWorkers /\ mailbox = [i \in Actors |-> "Unbounded"] /\ Init

SpecLife ==
    /\ InitLife
    /\ [][NextLife]_vars
    /\ \A i \in Solo : WF_vars(TaskStep(i) \/ DelayedTaskStep(i))

\* One actor, a peer, and a caller that spawns the actor and, between or
\* after its spawn calls, awaits start() on a scheduler of one or more workers.
StartSends == {<<"Inc", FALSE>>, <<"Kill", FALSE>>}

NextStart ==
    \/ \E i \in Solo, k \in StartSends : Send(i, k[1], k[2], MaxSend)
    \/ \E i \in Solo : startPc = "none" /\ SpawnStep(i, Strategies)
    \/ \E i \in Solo : Runnable(i) /\ TaskStep(i)
    \/ (\A i \in Solo : call[i] \in {"none", "ok"}) /\ StartCall
    \/ StartReturn

InitStart == NoTest /\ AllMain /\ mailbox = [i \in Actors |-> "Unbounded"] /\ Init

SpecStart ==
    /\ InitStart
    /\ [][NextStart]_vars
    /\ \A i \in Solo : WF_vars(Runnable(i) /\ TaskStep(i))
    /\ WF_vars(StartReturn)

\* A forwarding actor (1, spawned as "a") and its target (2, spawned as "b",
\* bounded or unbounded mailbox): the peer spawns the forwarder, then tells it
\* to forward, at once or with a delay, and tells the target to exit; the
\* target is spawned at any time; the scheduler runs the ready tasks.
ForwardSends == {<<1, "Fwd">>, <<1, "FwdAsk">>, <<1, "FwdDelayed">>, <<2, "Kill">>}

OwnName(i) == IF i = 1 THEN "a" ELSE IF i = 2 THEN "b" ELSE "c"

NextForward ==
    \/ \E k \in ForwardSends : call[1] = "ok" /\ Send(k[1], k[2], FALSE, MaxForward)
    \/ \E i \in Pair : SpawnCheck(i, OwnName(i), "none") \/ SpawnInsert(i) \/ SpawnPush(i)
    \/ \E i \in Pair : PlainTaskStep(i)
    \/ \E i \in Pair : \E m \in sendTasks[i] : SendTaskRun(i, m)
    \/ \E i \in Pair : \E m \in delayed[i] : DelayFire(i, m)

InitForward ==
    /\ NoTest
    /\ workers = MaxWorkers
    /\ behavior = [i \in Actors |-> IF i = 1 THEN "Forward" ELSE InitBehavior]
    /\ mailbox \in {f \in [Actors -> {"Unbounded", "Bounded"}] : \A i \in Actors \ {2} : f[i] = "Unbounded"}
    /\ Init

SpecForward ==
    /\ InitForward
    /\ [][NextForward]_vars
    /\ \A i \in Pair : WF_vars(PlainTaskStep(i))
    /\ \A i \in Pair : WF_vars(\E m \in sendTasks[i] : SendTaskRun(i, m))

\* Three counting actors spawned as "a", "b" and "c", and a peer that
\* broadcasts (tell of an i32, ask of Get with the reply-to address of one of
\* them), tells actor 1 to broadcast from its handler, and tells actor 3 to
\* exit. The peer makes its spawn calls one after the other.
NextCast ==
    \/ Broadcast("Inc", NoAddr, MaxCast)
    \/ \E r \in Actors : Broadcast("Get", r, MaxCast)
    \/ Send(1, "Cast", FALSE, MaxCast)
    \/ Send(3, "Kill", FALSE, MaxCast)
    \/ \E i \in Actors :
         /\ \A j \in Actors : j < i => call[j] = "ok"
         /\ SpawnCheck(i, OwnName(i), "none") \/ SpawnInsert(i) \/ SpawnPush(i)
    \/ \E i \in Actors : PlainTaskStep(i)

InitCast ==
    /\ NoTest
    /\ workers = MaxWorkers
    /\ behavior = [i \in Actors |-> "Counter"]
    /\ mailbox = [i \in Actors |-> "Unbounded"]
    /\ Init

SpecCast == InitCast /\ [][NextCast]_vars

\* The steps of Actor::run of an actor whose control flag stays Run and
\* whose handlers return Ok.
LoopStep(i) ==
    \/ RunStart(i)
    \/ HandlerBegin(i)
    \/ HandlerEnd(i)

\* The ping-pong pair: the peer spawns actor 1 and actor 2, then asks actor 1
\* Ball::Ping with the reply-to address of actor 2; stop() may be called at
\* any time; the scheduler runs the ready tasks.
Serve ==
    /\ \A i \in Pair : call[i] = "ok"
    /\ SendEnvelope(1, Message_with_sender(sent + 1, "Ping", 0, 2), 1)

NextPing ==
    \/ \E i \in Pair :
         /\ \A j \in Pair : j < i => call[j] = "ok"
         /\ SpawnCheck(i, OwnName(i), "none") \/ SpawnInsert(i) \/ SpawnPush(i)
    \/ Serve
    \/ \E i \in Pair : LoopStep(i)
    \/ StopClear
    \/ StopAbort
    \/ \E i \in Pair : Cancel(i)

InitPing ==
    /\ NoTest
    /\ workers = MaxWorkers
    /\ behavior = [i \in Actors |-> IF i \in Pair THEN "PingPong" ELSE InitBehavior]
    /\ mailbox = [i \in Actors |-> "Unbounded"]
    /\ Init

SpecPing ==
    /\ InitPing
    /\ [][NextPing]_vars
    /\ \A i \in Pair : WF_vars(LoopStep(i))

\* ------------------------------------------------------------ spawn_test
\* ActorSystem::spawn_test, first part: set_actor_sys on the TestActor's
\* context, registry.insert("test_actor") without
\* a check of the name, tokio::spawn of the task; the caller then awaits the
\* task's handle (the handle is not pushed to join_handles).
SpawnTest ==
    /\ testPc = "none"
    /\ call[Driver] = "none"
    /\ name' = [name EXCEPT ![Driver] = "test_actor"]
    /\ strategy' = [strategy EXCEPT ![Driver] = "test"]
    /\ registry' = [registry EXCEPT !["test_actor"] = Driver]
    /\ pc' = [pc EXCEPT ![Driver] = "start"]
    /\ call' = [call EXCEPT ![Driver] = "ok"]
    /\ sys' = [sys EXCEPT ![Driver] = ActorContext_set_actor_sys(@)]
    /\ testPc' = "running"
    /\ UNCHANGED <<mailbox, queue, sendTasks, sent, state, behavior, flag, cur, handler,
                   exitReason, backup, joined, aborted, stopPc, stops, executing,
                   hooks, hookBy, installed, lastSeq, replies, restarted, dropped,
                   startPc, workers, delayed, plan, tasks, test_state, awaiting,
                   castVars, lastBy>>

\* A spawn_test that fails a test only when the driver exits with an error.
ActorSystem_spawn_test_result_unless_error(reason) == reason # "Error"

\* The value the task of spawn_test returns for the exit reason of run().
ActorSystem_spawn_test_result(reason) == reason = "Kill"

\* ActorSystem::spawn_test, second part: run() of the driver returned; the
\* task removes "test_actor" unless the reason is Restart, the actor is
\* dropped, and the awaiting caller gets the task's value.
TestExit ==
    /\ pc[Driver] = "exited"
    /\ strategy[Driver] = "test"
    /\ registry' = IF exitReason[Driver] = "Restart" THEN registry
                   ELSE [registry EXCEPT !["test_actor"] = NoActor]
    /\ pc' = [pc EXCEPT ![Driver] = "done"]
    /\ queue' = [queue EXCEPT ![Driver] = <<>>]
    /\ testPc' = IF ActorSystem_spawn_test_result(exitReason[Driver]) THEN "true" ELSE "false"
    /\ UNCHANGED <<mailbox, sendTasks, sent, state, behavior, flag, call, strategy,
                   name, cur, handler, exitReason, backup, joined, aborted, stopPc,
                   stops, executing, hooks, hookBy, installed, lastSeq, replies,
                   restarted, dropped, startPc, workers, delayed, plan, tasks,
                   test_state, awaiting, castVars, lastBy, sys>>

\* The steps of the task of spawn_test.
DriverStep ==
    \/ RunStart(Driver)
    \/ HandlerBegin(Driver)
    \/ HandlerEnd(Driver)
    \/ ExitOnFlag(Driver)
    \/ TestExit

\* A test: the peer spawns the subject, may tell the driver a management
\* message through Actor::get_addr, and calls spawn_test, which returns when
\* the driver's task has ended.
NextTest ==
    \/ SpawnCheck(Subject, OwnName(Subject), "none")
    \/ SpawnInsert(Subject)
    \/ SpawnPush(Subject)
    \/ \E k \in {"Kill", "Restart"} :
          call[Subject] = "ok" /\ testPc = "none" /\ Send(Driver, k, FALSE, MaxManage)
    \/ call[Subject] = "ok" /\ SpawnTest
    \/ LoopStep(Subject)
    \/ DriverStep

InitTest ==
    /\ workers = MaxWorkers
    /\ behavior = [i \in Actors |-> IF i = Subject THEN "Subject"
                                    ELSE IF i = Driver THEN "Test" ELSE InitBehavior]
    /\ mailbox = [i \in Actors |-> "Unbounded"]
    /\ Init

SpecTest ==
    /\ InitTest
    /\ [][NextTest]_vars
    /\ WF_vars(LoopStep(Subject))
    /\ WF_vars(DriverStep)

\* A test of a counter: the plans that tell the subject an i32 and check its
\* state, against a subject with an unbounded or a bounded mailbox.
CounterPlans ==
    {p \in Plans : \A k \in 1..Len(p) :
        p[k] \in {BuilderCall("tell", "Inc", NoResponse), BuilderCall("check", "CheckIs0", NoResponse)}}

NextCounterTest ==
    \/ SpawnCheck(Subject, OwnName(Subject), "none")
    \/ SpawnInsert(Subject)
    \/ SpawnPush(Subject)
    \/ call[Subject] = "ok" /\ SpawnTest
    \/ \E m \in sendTasks[Subject] : SendTaskRun(Subject, m)
    \/ LoopStep(Subject)
    \/ DriverStep

InitCounterTest ==
    /\ plan \in CounterPlans
    /\ workers = MaxWorkers
    /\ behavior = [i \in Actors |-> IF i = Subject THEN "Subject"
                                    ELSE IF i = Driver THEN "Test" ELSE InitBehavior]
    /\ mailbox \in {f \in [Actors -> {"Unbounded", "Bounded"}] :
                        \A i \in Actors \ {Subject} : f[i] = "Unbounded"}
    /\ Init

SpecCounterTest == InitCounterTest /\ [][NextCounterTest]_vars

\* A test run on a system that has an actor of the name "test_actor": the
\* peer spawns actor 2 under that name, tells it an i32 or Kill, and calls
\* spawn_test with a driver built from an empty plan.
Named == 2
RegistrySends == {<<"Inc", FALSE>>, <<"Kill", FALSE>>}

NextRegistry ==
    \/ SpawnCheck(Named, "test_actor", "none")
    \/ SpawnInsert(Named)
    \/ SpawnPush(Named)
    \/ \E k \in RegistrySends : call[Named] = "ok" /\ Send(Named, k[1], k[2], MaxSend)
    \/ call[Named] = "ok" /\ SpawnTest
    \/ PlainTaskStep(Named)
    \/ DriverStep

InitRegistry ==
    /\ NoTest
    /\ workers = MaxWorkers
    /\ behavior = [i \in Actors |-> IF i = Driver THEN "Test" ELSE InitBehavior]
    /\ mailbox = [i \in Actors |-> "Unbounded"]
    /\ Init

SpecRegistry == InitRegistry /\ [][NextRegistry]_vars

\* ------------------------------------------------------------ properties
\* Steps of actor i: a message is dequeued; the handler of cur[i] returns.
Dispatches(i) == lastSeq'[i] # lastSeq[i]
HandlerReturns(i) == pc[i] = "handling" /\ pc'[i] # "handling"
TaskEnded(i) == pc[i] \in {"done", "panicked", "cancelled"}
Spawned(i) == call[i] \in {"inserted", "ok"}
AskHandlers == {"get", "swap", "inc2"}
TellHandlers == {"inc", "boom", "killboom", "panic", "manage"}

\* C1: the messages the sender sent to one address (bounded or unbounded
\* mailbox) are dispatched in the order they were sent: each dispatched
\* message was sent after the one dispatched before it.
PerSenderOrdering ==
    [][\A i \in Actors : Dispatches(i) => lastSeq'[i] > lastSeq[i]]_vars

\* C2: at most one handler of an actor is executing at any time, and the
\* actor's state changes only in the step of its running handler or when the
\* supervisor applies the backup between two lives.
MutualExclusion ==
    [][\A i \in Actors :
         /\ executing[i] <= 1
         /\ executing'[i] <= 1
         /\ (executing[i] = 1) = (pc[i] = "handling")
         /\ state'[i] # state[i] =>
              \/ HandlerReturns(i)
              \/ pc[i] = "exited" /\ pc'[i] = "start"]_vars

MutualExclusionWitness ==
    /\ pc[1] = "handling"
    /\ executing[1] = 1
    /\ queue[1] # <<>>

\* C3: the handler of the message that returns Change(b') was picked by the
\* old behavior; from the next dequeue on every message is dispatched through
\* the behavior installed last (by Change, or by a restart), the lifecycle
\* hooks that run are those of that behavior, and under the empty behavior a
\* message other than the management protocol changes no state and gets no
\* reply.
ChangeVisibility ==
    [][\A i \in Actors :
         /\ Dispatches(i) => handler'[i] = Behavior_handle(installed[i], cur'[i])
         /\ (HandlerReturns(i) /\ HandlerCall(handler[i], cur[i], state[i]).result = "Change") =>
              /\ handler[i] = Behavior_handle(behavior[i], cur[i])
              /\ pc'[i] = "loop"
              /\ behavior'[i] = HandlerCall(handler[i], cur[i], state[i]).change
         /\ \A h \in HookNames : hooks'[i][h] > hooks[i][h] =>
              /\ h \in Behavior(installed[i]).hooks
              /\ hookBy'[i] = installed[i]
         /\ (HandlerReturns(i) /\ behavior[i] = "Empty"
               /\ Message_type_id(cur[i]) # "ActorManageMessage") =>
              /\ state'[i] = state[i]
              /\ replies' = replies
              /\ behavior'[i] = "Empty"]_vars

ChangeVisibilityWitness ==
    /\ behavior[1] = "Alt"
    /\ cur[1].payload = "Boom"
    /\ pc[1] = "exited"
    /\ hookBy[1] = "Alt"
    /\ hooks[1]["on_error"] = 1

\* C4: while no actor of that name has exited and stop() was not called, two
\* spawn calls with the same name do not both return Ok.
NameUniqueness ==
    \A i, j \in Actors :
        (i # j /\ name[i] = name[j] /\ stops = 0 /\ Live(i) /\ Live(j))
            => ~(call[i] = "ok" /\ call[j] = "ok")

\* C5: an actor is not left in the registry after its run task has ended.
RegistryCoupling ==
    \A i \in Actors : TaskEnded(i) => registry[name[i]] # i

\* C6: under SimpleRestartStrategy the backup is the initial state and
\* behavior from the spawn on, and every restarted life starts from them.
BackupFidelity ==
    \A i \in Actors :
        (strategy[i] = "SimpleRestart" /\ Spawned(i)) =>
            /\ backup[i] = [state |-> InitState, behavior |-> InitBehavior]
            /\ (restarted[i] /\ pc[i] = "start") =>
                 (state[i] = InitState /\ behavior[i] = InitBehavior)

BackupFidelityWitness ==
    /\ restarted[1]
    /\ pc[1] = "start"
    /\ cur[1].payload = "Boom"
    /\ hookBy[1] = "Alt"
    /\ hooks[1]["on_error"] = 1
    /\ state[1] = InitState
    /\ behavior[1] = InitBehavior

\* C7: a handler of the ask table only runs for an envelope with a reply-to
\* address and a handler of the tell table only for one without; an envelope
\* whose type has a handler in the other table only gets no handler, and the
\* end of its dispatch leaves state, behavior and control flag unchanged.
AskTellRouting ==
    [][\A i \in Actors :
         LET m == cur'[i]
             t == Message_type_id(m)
             mine == IF m.ask THEN Behavior(behavior[i]).ask ELSE Behavior(behavior[i]).tell
             other == IF m.ask THEN Behavior(behavior[i]).tell ELSE Behavior(behavior[i]).ask
         IN /\ Dispatches(i) =>
                 /\ handler'[i] \in AskHandlers => m.ask
                 /\ handler'[i] \in TellHandlers => ~m.ask
                 /\ t \notin DOMAIN mine => handler'[i] = "none"
            /\ (HandlerReturns(i) /\ t \in DOMAIN other /\ t \notin DOMAIN mine) =>
                 /\ state'[i] = state[i]
                 /\ behavior'[i] = behavior[i]
                 /\ flag'[i] = flag[i]
                 /\ replies' = replies
                 /\ pc'[i] = "loop"]_vars

AskTellRoutingWitness ==
    /\ pc[1] = "loop"
    /\ behavior[1] = "Main"
    /\ state[1] = InitState
    /\ cur[1].payload = "Get"
    /\ ~cur[1].ask
    /\ handler[1] = "none"

\* C8: when the dequeued message has no handler in the table of its kind, the
\* step that ends its dispatch changes neither state, behavior nor flag, runs
\* no hook, sends no reply, and leaves the actor at the top of its loop.
UnknownTypeTolerance ==
    [][\A i \in Actors :
         (HandlerReturns(i) /\ handler[i] = "none") =>
            /\ state'[i] = state[i]
            /\ behavior'[i] = behavior[i]
            /\ flag'[i] = flag[i]
            /\ hooks'[i] = hooks[i]
            /\ replies' = replies
            /\ exitReason'[i] = exitReason[i]
            /\ queue'[i] = queue[i]
            /\ pc'[i] = "loop"]_vars

UnknownTypeToleranceWitness ==
    /\ pc[1] = "loop"
    /\ cur[1].payload = "Other"
    /\ handler[1] = "none"
    /\ lastSeq[1] = 2
    /\ state[1] = InitState + 1
    /\ queue[1] = <<>>

\* C9: when a handler returns Fail, on_error of the current behavior runs
\* once, the run loop exits with Error, no other actor changes, nothing more
\* is dispatched in that life, and the exit of an unsupervised actor removes
\* its name from the registry.
HandlerFailure ==
    [][\A i \in Actors :
         /\ (HandlerReturns(i) /\ HandlerCall(handler[i], cur[i], state[i]).result = "Fail") =>
              /\ hooks'[i]["on_error"] = hooks[i]["on_error"] + 1
              /\ hooks'[i]["on_error"] = 1
              /\ pc'[i] = "exited"
              /\ exitReason'[i] = "Error"
              /\ \A j \in Actors \ {i} :
                   /\ state'[j] = state[j]
                   /\ pc'[j] = pc[j]
                   /\ flag'[j] = flag[j]
                   /\ queue'[j] = queue[j]
         /\ pc[i] = "exited" => ~Dispatches(i)
         /\ (pc[i] = "exited" /\ strategy[i] = "none" /\ pc'[i] # "exited") =>
              /\ pc'[i] = "done"
              /\ registry'[name[i]] = NoActor]_vars

HandlerFailureWitness ==
    /\ pc[1] = "done"
    /\ exitReason[1] = "Error"
    /\ hooks[1]["on_error"] = 1
    /\ registry["a"] = NoActor
    /\ pc[2] = "loop"
    /\ name[2] = "b"

\* C10: a handler that panics is treated like one that returns Fail:
\* on_error runs and the run loop exits with Error.
PanicContainment ==
    [][\A i \in Actors :
         (HandlerReturns(i) /\ HandlerCall(handler[i], cur[i], state[i]).result = "Panic") =>
            /\ hooks'[i]["on_error"] = hooks[i]["on_error"] + 1
            /\ pc'[i] = "exited"
            /\ exitReason'[i] = "Error"]_vars

\* The effect of the handler of cur[i], and the exit hook of a control flag.
Eff(i) == HandlerCall(handler[i], cur[i], state[i])
FlagHook(f) == IF f = "Kill" THEN "on_kill" ELSE "on_restart"

\* With the flag set, the only step of the run loop is the exit on the flag:
\* nothing is dispatched, the matching hook runs once, the reason is the flag.
ExitsOnFlag(i) ==
    (pc[i] = "loop" /\ flag[i] # "Run") =>
        /\ ~Dispatches(i)
        /\ Len(queue'[i]) >= Len(queue[i])
        /\ pc'[i] # pc[i] =>
             /\ pc'[i] = "exited"
             /\ exitReason'[i] = flag[i]
             /\ \A h \in HookNames \ {"on_start"} :
                  hooks'[i][h] = IF h = FlagHook(flag[i]) /\ h \in Behavior(behavior[i]).hooks
                                 THEN 1 ELSE 0

\* C11: a handler that calls ctx.kill() or ctx.restart() runs to completion
\* and leaves the actor at the top of its loop with the flag set; from there
\* no message is dispatched, on_kill (on_restart) runs once and the run loop
\* exits with Kill (Restart), whatever is still buffered.
KillRestartFlagTiming ==
    [][\A i \in Actors :
         /\ (HandlerReturns(i) /\ Eff(i).flag # "keep") =>
              /\ pc'[i] = "loop"
              /\ flag'[i] = Eff(i).flag
         /\ ExitsOnFlag(i)]_vars

\* C11, amended: the same for a handler that returns Ok after the call; a
\* handler that returns Err after the call ends the life with on_error and
\* Error, and the flag it set stays for the next life.
KillRestartFlagTimingOk ==
    [][\A i \in Actors :
         /\ (HandlerReturns(i) /\ Eff(i).flag # "keep") =>
              /\ flag'[i] = Eff(i).flag
              /\ Eff(i).result # "Fail" => pc'[i] = "loop"
              /\ Eff(i).result = "Fail" =>
                   /\ pc'[i] = "exited"
                   /\ exitReason'[i] = "Error"
                   /\ hooks'[i]["on_kill"] = 0
                   /\ hooks'[i]["on_restart"] = 0
         /\ ExitsOnFlag(i)]_vars

KillRestartFlagTimingWitness ==
    /\ pc[1] = "exited"
    /\ exitReason[1] = "Kill"
    /\ cur[1].payload = "Kill"
    /\ hooks[1]["on_kill"] = 1
    /\ Len(queue[1]) = 1
    /\ lastSeq[1] = 1

\* A tell of the management protocol, and one of Kill waiting in the mailbox.
ManageTell(m) == Message_type_id(m) = "ActorManageMessage" /\ ~m.ask
KillQueued(i) == \E k \in 1..Len(queue[i]) : queue[i][k].payload = "Kill" /\ ~queue[i][k].ask

\* C12: under every behavior, the initial one or one installed by Change, a
\* tell of the management protocol is dispatched to the handler installed by
\* build, which sets the control flag to the message's kind; an actor that
\* handles Management::Kill eventually exits with reason Kill and is removed,
\* and an actor with Management::Kill in its mailbox eventually ends, or is
\* restarted because an earlier message ended its life first.
ExternalControllability ==
    /\ [][\A i \in Actors :
            /\ (Dispatches(i) /\ ManageTell(cur'[i])) => handler'[i] = "manage"
            /\ (HandlerReturns(i) /\ ManageTell(cur[i])) =>
                 /\ flag'[i] = cur[i].payload
                 /\ pc'[i] = "loop"]_vars
    /\ \A i \in Actors :
         (pc[i] = "handling" /\ cur[i].payload = "Kill" /\ ManageTell(cur[i]))
             ~> (pc[i] = "done" /\ exitReason[i] = "Kill" /\ registry[name[i]] = NoActor)
    /\ \A i \in Actors :
         (Live(i) /\ KillQueued(i)) ~> (pc[i] = "done" \/ restarted[i])

ExternalControllabilityWitness ==
    /\ behavior[1] = "Empty"
    /\ cur[1].payload = "Kill"
    /\ lastSeq[1] = 2
    /\ pc[1] = "done"
    /\ exitReason[1] = "Kill"

\* C13: when an actor supervised by SimpleRestartStrategy leaves its loop
\* with reason Restart, on_restart has run once, the supervisor re-hydrates it
\* from the backup and starts the next life, and a message waiting in its
\* mailbox is then dequeued and dispatched.
RestartOnRequest ==
    /\ [][\A i \in Actors :
            (pc[i] = "exited" /\ exitReason[i] = "Restart"
               /\ strategy[i] = "SimpleRestart" /\ pc'[i] # "exited") =>
                /\ hooks[i]["on_restart"] = IF HookRuns(i, "on_restart") THEN 1 ELSE 0
                /\ state'[i] = backup[i].state
                /\ behavior'[i] = backup[i].behavior
                /\ pc'[i] = "start"]_vars
    /\ \A i \in Actors :
         (pc[i] = "exited" /\ exitReason[i] = "Restart"
            /\ strategy[i] = "SimpleRestart" /\ queue[i] # <<>>)
             ~> (pc[i] = "handling")

\* The supervisor's step that answers Restart or RestartDelayed for actor i.
Restarts(i) == pc[i] = "exited" /\ pc'[i] \in {"start", "delay"}

\* C14: the step that restarts an actor (at once or after a delay) keeps its
\* registry entry, its name and the content of its mailbox; nothing is
\* dispatched during the delay; the restarted life dispatches through the
\* behavior of the backup, in the order sent; and a message waiting in the
\* mailbox of a restarted actor is eventually dispatched.
RestartPreservesMailbox ==
    /\ [][\A i \in Actors :
            /\ Restarts(i) =>
                 /\ registry' = registry
                 /\ name'[i] = name[i]
                 /\ queue'[i] = queue[i]
            /\ pc[i] = "delay" => (~Dispatches(i) /\ registry'[name[i]] = registry[name[i]])
            /\ (Dispatches(i) /\ restarted[i]) =>
                 /\ handler'[i] = Behavior_handle(installed[i], cur'[i])
                 /\ lastSeq'[i] > lastSeq[i]]_vars
    /\ \A i \in Actors :
         (restarted[i] /\ pc[i] \in {"start", "delay"} /\ queue[i] # <<>>)
             ~> (pc[i] = "handling")

ExitReasons == {"Kill", "Restart", "Error"}

ExitHook(r) ==
    CASE r = "Kill" -> "on_kill"
      [] r = "Restart" -> "on_restart"
      [] OTHER -> "on_error"

\* The hook counts of a life that has started and has not ended.
Started(i) == [NoHooks EXCEPT !["on_start"] = IF "on_start" \in Behavior(InitBehavior).hooks THEN 1 ELSE 0]

NaturalDrain ==
    \A i \in Actors :
        (dropped /\ Receiving(i) /\ queue[i] = <<>>)
            ~> (pc[i] = "done" /\ exitReason[i] = "Kill" /\ registry[name[i]] = NoActor)

\* C18: stop() leaves the registry empty, and a task that stop() has aborted
\* or cancelled invokes no handler any more and is not restarted.
StopDiscards ==
    [][/\ (stopPc = "idle" /\ stopPc' = "cleared") => \A n \in Names : registry'[n] = NoActor
       /\ \A i \in Actors :
            (aborted[i] \/ pc[i] = "cancelled") =>
                /\ ~Dispatches(i)
                /\ ~Restarts(i)
                /\ pc'[i] # "handling"]_vars

\* Every registered actor is about to exit for good: its task is live and it
\* has the flag Kill set or Management::Kill in hand or in its mailbox.
KillPending(i) ==
    /\ Live(i)
    /\ \/ flag[i] = "Kill"
       \/ KillQueued(i)
       \/ pc[i] = "handling" /\ cur[i].payload = "Kill" /\ ManageTell(cur[i])
AllExiting == \A n \in Names : registry[n] # NoActor => KillPending(registry[n])

\* C19: start() returns only when the registry is empty, and on a scheduler
\* of any number of workers the caller that waits in start() eventually
\* resumes once the registry is empty or every registered actor is about to
\* exit for good.
QuiescenceWait ==
    /\ [][(startPc = "waiting" /\ startPc' = "returned") =>
            \A n \in Names : registry[n] = NoActor]_vars
    /\ (startPc = "waiting" /\ AllExiting) ~> (startPc = "returned")

\* C20: the spawn call that returns ActorNameAlreadyInUse finds the name
\* registered and leaves the registry as it is, changes nothing of any other
\* actor, and the rejected actor never gets a task, a join handle, a backup
\* or a hook run, and never enters the registry.
FailedSpawn ==
    [][\A i \in Actors :
         /\ (call[i] = "none" /\ call'[i] = "err") =>
              /\ registry[name'[i]] # NoActor
              /\ registry' = registry
              /\ joined' = joined
              /\ \A j \in Actors \ {i} :
                   /\ pc'[j] = pc[j]
                   /\ state'[j] = state[j]
                   /\ behavior'[j] = behavior[j]
                   /\ flag'[j] = flag[j]
                   /\ queue'[j] = queue[j]
                   /\ backup'[j] = backup[j]
         /\ call'[i] = "err" =>
              /\ pc'[i] = "none"
              /\ ~joined'[i]
              /\ backup'[i] = NoBackup
              /\ hooks'[i] = NoHooks
              /\ lastSeq'[i] = 0
              /\ \A n \in Names : registry'[n] # i]_vars

FailedSpawnWitness ==
    /\ call[2] = "err"
    /\ strategy[2] = "SimpleRestart"
    /\ name[2] = "a"
    /\ registry["a"] = 1
    /\ pc[1] = "loop"
    /\ lastSeq[1] = 1
    /\ state[1] = InitState + 1

\* The actors with an entry in the registry.
Registered == {registry[n] : n \in Names} \ {NoActor}

\* The step appends envelope e to the mailbox of every registered actor and
\* leaves every other mailbox as it is.
FansOut(e) ==
    \A j \in Actors :
        queue'[j] = IF j \in Registered THEN Append(queue[j], e) ELSE queue[j]

\* C21: a broadcast appends one clone of the message to the mailbox of every
\* actor registered at the call (the calling actor included) and to no other
\* mailbox; the clone carries the reply-to address in the ask variant and
\* none in the tell variant; after one broadcast_tell to three registered
\* counting actors each count is 1.
BroadcastDelivery ==
    /\ [][/\ casts' # casts =>
               /\ castTo' = Registered
               /\ \/ FansOut(Message_without_sender(sent', "Inc", 0))
                  \/ \E r \in Actors : FansOut(Message_with_sender(sent', "Get", 0, r))
          /\ \A i \in Actors :
               (HandlerReturns(i) /\ handler[i] = "cast") =>
                   /\ i \in Registered
                   /\ FansOut(Message_without_sender(cur[i].seq, "Inc", 0))]_vars
    /\ []((/\ casts = 1
           /\ sent = 1
           /\ castTo = Actors
           /\ \A i \in Actors : pc[i] = "loop" /\ queue[i] = <<>>
           /\ \E i \in Actors : cur[i].payload = "Inc")
          => \A i \in Actors : state[i] = InitState + 1 /\ cur[i] = Message_without_sender(1, "Inc", 0))

BroadcastDeliveryWitness ==
    /\ casts = 1
    /\ sent = 1
    /\ castTo = Actors
    /\ \A i \in Actors : pc[i] = "loop" /\ queue[i] = <<>> /\ state[i] = InitState + 1

\* The balls in the mailboxes and in the handlers of the pair.
Balls ==
    Len(queue[1]) + Len(queue[2]) + Cardinality({i \in Pair : pc[i] = "handling"})

\* C24: from the peer's ask on and until stop() is called there is exactly
\* one ball, in a mailbox or in a handler; an actor dequeues a ball only when
\* the other actor dequeued the one before; the handler that returns puts the
\* ball into the other actor's mailbox; and a ball waiting in a mailbox is
\* eventually dequeued unless stop() is called.
PingPongLiveness ==
    /\ []((sent = 1 /\ stops = 0) => Balls = 1)
    /\ [][\A i \in Pair :
            /\ (stops = 0 /\ pc[i] = "loop" /\ pc'[i] = "handling") =>
                 /\ lastBy # i
                 /\ cur'[i].ask
                 /\ cur'[i].sender = Target(i)
                 /\ cur'[i].payload = (IF i = 1 THEN "Ping" ELSE "Pong")
            /\ (stops = 0 /\ HandlerReturns(i)) =>
                 /\ pc'[i] = "loop"
                 /\ queue'[Target(i)] = <<Message_with_sender(1, IF i = 1 THEN "Pong" ELSE "Ping", 0, i)>>
                 /\ queue'[i] = <<>>]_vars
    /\ \A i \in Pair : (queue[i] # <<>>) ~> (pc[i] = "handling" \/ stops > 0)

PingPongLivenessWitness ==
    /\ stops = 0
    /\ pc[1] = "handling"
    /\ cur[1].payload = "Ping"
    /\ cur[1].sender = 2
    /\ cur[2].payload = "Pong"
    /\ cur[2].sender = 1
    /\ lastBy = 1
    /\ queue[1] = <<>>
    /\ queue[2] = <<>>

\* The sends of the handler of cur[i]; all of them go to actors whose task
\* has ended.
Outs(i) == HandlerSends(i, handler[i], cur[i], state[i])
ToEnded(i) == Outs(i) # <<>> /\ \A k \in 1..Len(Outs(i)) : TaskEnded(Outs(i)[k].to)

\* C22: a handler that sends (tell or ask, at once or delayed, bounded or
\* unbounded mailbox) to the address of an actor whose task has ended returns
\* to its loop without an error, and the message reaches no mailbox; the
\* steps of the send task and of the delay task of such a message change no
\* mailbox and no actor; an ended actor's mailbox stays empty.
TornDownSend ==
    [][\A i \in Actors :
         /\ (HandlerReturns(i) /\ ToEnded(i)) =>
              /\ pc'[i] = "loop"
              /\ exitReason'[i] = exitReason[i]
              /\ hooks'[i] = hooks[i]
              /\ queue' = queue
              /\ \A j \in Actors \ {i} :
                   /\ state'[j] = state[j]
                   /\ behavior'[j] = behavior[j]
                   /\ flag'[j] = flag[j]
                   /\ pc'[j] = pc[j]
         /\ (TaskEnded(i) /\ (sendTasks'[i] \subseteq sendTasks[i]) /\ (delayed'[i] \subseteq delayed[i])
               /\ <<sendTasks'[i], delayed'[i]>> # <<sendTasks[i], delayed[i]>>) =>
              /\ queue' = queue
              /\ state' = state
              /\ pc' = pc
         /\ TaskEnded(i) =>
              /\ queue[i] = <<>>
              /\ queue'[i] = <<>>
              /\ state'[i] = state[i]
              /\ pc'[i] = pc[i]]_vars

TornDownSendWitness ==
    /\ mailbox[2] = "Bounded"
    /\ pc[2] = "done"
    /\ exitReason[2] = "Kill"
    /\ cur[2].seq = 1
    /\ pc[1] = "loop"
    /\ cur[1].payload = "FwdDelayed"
    /\ cur[1].seq = 2
    /\ exitReason[1] = "none"
    /\ delayed[2] = {}
    /\ sendTasks[2] = {}

Returned == testPc \in {"true", "false"}

\* C25: when spawn_test has returned, it returned true if and only if the
\* run loop of the driver exited with reason Kill, and it returned false
\* when the loop exited with Error or with Restart.
TestVerdict ==
    Returned =>
        /\ exitReason[Driver] \in {"Kill", "Error", "Restart"}
        /\ testPc = "true" <=> exitReason[Driver] = "Kill"
        /\ exitReason[Driver] \in {"Error", "Restart"} => testPc = "false"

\* A test told to restart has returned false.
TestVerdictWitness == testPc = "false" /\ exitReason[Driver] = "Restart"
\* ------------------------------------------------------------------ C26
\* The builder call whose task the driver took last (0: none yet), and
\* whether envelope m is the response that call c of the plan asks for: the
\* kind, the type and a true criteria as the caller of the builder wrote them;
\* for a check, a state-check result of true.
CurrentStep == Len(plan) + 1 - Len(tasks)

Matches(m, c) ==
    CASE c.op = "check" -> m.payload = "Result" /\ ~m.ask /\ m.val = 1
      [] c.op \in {"ask", "expect_tell", "expect_ask"} ->
           /\ m.ask <=> c.resp.kind = "Ask"
           /\ Message_type_id(m) = c.resp.type
           /\ Criteria(c.resp.pred, m)
      [] OTHER -> FALSE

\* The driver waits for a response and m is that response.
Expected(m) ==
    awaiting /\ CurrentStep \in 1..Len(plan) /\ Matches(m, plan[CurrentStep])

\* The driver takes the next task; it takes the message it handled as the
\* response to the current step.
TakesTask == tasks' # tasks
Accepts == HandlerReturns(Driver) /\ awaiting /\ ~awaiting'

\* The driver waits for a response and nothing is on its way to it.
Starved ==
    /\ awaiting
    /\ pc[Driver] = "loop"
    /\ queue[Driver] = <<>>
    /\ queue[Subject] = <<>>
    /\ pc[Subject] # "handling"

\* The driver left with an error on a message other than the response it
\* waited for.
FailedOnUnexpected == exitReason[Driver] = "Error" /\ ~Expected(cur[Driver])

\* C26: the driver takes the tasks in plan order, one at a time, and takes
\* the next one only when it does not wait for a response; it stops waiting
\* only on the response the current step asks for, and that response always
\* makes it go on; a test whose driver got no management message ends with
\* spawn_test returning true unless a response stays away or an unexpected
\* message fails it.
PassingPlan ==
    /\ [][TakesTask => tasks' = Tail(tasks) /\ ~awaiting]_vars
    /\ [][Accepts => Expected(cur[Driver])]_vars
    /\ [][HandlerReturns(Driver) /\ Expected(cur[Driver])
            => ~awaiting' /\ pc'[Driver] = "loop"]_vars
    /\ (testPc = "running" /\ sent = 0) ~> (testPc = "true" \/ FailedOnUnexpected \/ Starved)
\* ------------------------------------------------------------------ C27
\* A message of the test: neither the driver's own RunNext nor a management
\* message.
TestMessage(m) == Message_type_id(m) \notin {"TestActorMessage", "ActorManageMessage"}

\* C27: whenever the driver has handled a message of the test that is not
\* the response the current step asks for (wrong kind, wrong type, false
\* criteria, a state-check result of false, or any message while it expects
\* nothing), the handler returned an error and the run loop exited with
\* Error; and a driver that exited with Error makes spawn_test return false.
FailingPlan ==
    /\ [][HandlerReturns(Driver) /\ TestMessage(cur[Driver]) /\ ~Expected(cur[Driver])
            => pc'[Driver] = "exited" /\ exitReason'[Driver] = "Error"]_vars
    /\ exitReason[Driver] = "Error" ~> testPc = "false"
\* ------------------------------------------------------------------ C28
\* C28: when the driver waits for a response and the subject sends none
\* (nothing is in either mailbox and the subject is idle), spawn_test
\* eventually returns false.
MissingResponse == Starved ~> testPc = "false"
\* ------------------------------------------------------------------ C29
\* The driver waits at a step made by builder call op.
WaitsAt(op) == awaiting /\ CurrentStep \in 1..Len(plan) /\ plan[CurrentStep].op = op

\* C29: a driver that waits at an expect_ask::<T>(pred) step goes on to the
\* next step on the message it handles exactly when that message is an ask
\* of type T for which pred is true, and one that waits at an
\* expect_tell::<T>(pred) step exactly when it is such a tell.
ExpectSatisfied ==
    [][\A op \in {"expect_ask", "expect_tell"} :
          WaitsAt(op) /\ HandlerReturns(Driver) /\ TestMessage(cur[Driver])
          => (~awaiting' /\ pc'[Driver] = "loop" <=> Matches(cur[Driver], plan[CurrentStep]))]_vars
\* ------------------------------------------------------------------ C30
\* The behavior was built with enable_state_checks.
StateChecksEnabled(b) == "StateCheckMessage" \in DOMAIN Behavior(b).ask

\* The result an actor with state s owes to state-check query m.
CheckResult(m, s) == Message_without_sender(m.seq, "Result", IF s = 0 THEN 1 ELSE 0)

\* C30: when an actor has handled an ask of a state-check query, then, if
\* its behavior was built with enable_state_checks, exactly one message went
\* to the reply-to address, a tell of the result of the predicate on the
\* state the actor had when it handled the query, and the actor's state,
\* behavior and control flag are as before; if its behavior was built
\* without, nothing went to the reply-to address.
StateCheckProtocol ==
    [][\A i \in Actors :
          HandlerReturns(i) /\ cur[i].payload = "CheckIs0" /\ cur[i].ask /\ cur[i].sender # NoActor
          => LET to == cur[i].sender
             IN IF StateChecksEnabled(behavior[i])
                THEN /\ Closed(to) \/ queue'[to] = Append(queue[to], CheckResult(cur[i], state[i]))
                     /\ Closed(to) => queue'[to] = queue[to]
                     /\ state'[i] = state[i]
                     /\ behavior'[i] = behavior[i]
                     /\ flag'[i] = flag[i]
                     /\ pc'[i] = "loop"
                ELSE queue'[to] = queue[to]]_vars

\* The subject has answered a query on a state on which the predicate is
\* false, and the result is in the driver's mailbox.
StateCheckProtocolWitness ==
    /\ cur[Subject].payload = "CheckIs0"
    /\ pc[Subject] = "loop"
    /\ state[Subject] = 1
    /\ queue[Driver] = <<CheckResult(cur[Subject], 1)>>
\* ------------------------------------------------------------------ C31
\* The tell(i32) calls of the plan before its call number k.
TellsBefore(k) ==
    Cardinality({j \in 1..Len(plan) : j < k /\ plan[j] = BuilderCall("tell", "Inc", NoResponse)})

\* C31: while the subject handles the state-check query of a check step, its
\* state is the one left by the handlers of all the tells placed before that
\* step in the plan, with an unbounded and with a bounded mailbox.
CheckSeesTells ==
    pc[Subject] = "handling" /\ cur[Subject].payload = "CheckIs0"
    => state[Subject] = TellsBefore(cur[Subject].seq)
\* ------------------------------------------------------------------ C32
\* The payload type M each handler of the modelled behaviors was registered
\* with (on_tell::<M> / on_ask::<M>); the default handlers of the driver are
\* registered once per response type of the plan.
HandlerType(h) ==
    CASE h \in {"inc", "inc2"} -> {"i32"}
      [] h = "get" -> {"Get"}
      [] h \in {"swap", "become"} -> {"ChangeMsg"}
      [] h = "boom" -> {"Boom"}
      [] h = "killboom" -> {"KillBoom"}
      [] h = "panic" -> {"Panic"}
      [] h = "manage" -> {"ActorManageMessage"}
      [] h = "fwd" -> {"Fwd"}
      [] h = "cast" -> {"Cast"}
      [] h = "ball" -> {"Ball"}
      [] h = "emit" -> {"Emit"}
      [] h \in {"check", "t_check"} -> {"StateCheckMessage"}
      [] h = "t_run" -> {"TestActorMessage"}
      [] h = "t_tell" -> DOMAIN ActorTestBuilder_behavior(plan).tell
      [] h = "t_ask" -> DOMAIN ActorTestBuilder_behavior(plan).ask
      [] OTHER -> {}

\* The driver's handler of cur calls the criteria of the pending response.
CriteriaCalled ==
    /\ pc[Driver] = "handling"
    /\ \/ handler[Driver] = "t_tell" /\ test_state.kind = "Tell"
       \/ handler[Driver] = "t_ask" /\ test_state.kind = "Ask"
    /\ TestActor_calls_criteria(cur[Driver], test_state)

RestartRequested(i) == strategy[i] = "none" /\ pc[i] = "loop" /\ flag[i] = "Restart"

\* The run loop of an actor spawned without supervision returned Restart.
PlainRestartExit(i) == strategy[i] = "none" /\ exitReason[i] = "Restart"

\* C33: an actor spawned without supervision whose run loop sees the flag
\* Restart runs on_restart and not on_kill, its task ends and its name is
\* removed from the registry; it is not restarted, its task stays ended, and
\* its mailbox takes no message any more.
UnsupervisedRestart ==
    /\ \A i \in Solo : RestartRequested(i) ~> (pc[i] = "done" /\ PlainRestartExit(i))
    /\ [](\A i \in Solo : PlainRestartExit(i) =>
             /\ hooks[i]["on_restart"] = (IF HookRuns(i, "on_restart") THEN 1 ELSE 0)
             /\ hooks[i]["on_kill"] = 0
             /\ ~restarted[i])
    /\ [](\A i \in Solo : PlainRestartExit(i) /\ pc[i] = "done" =>
             registry[name[i]] # i /\ queue[i] = <<>>)
    /\ [][\A i \in Solo : PlainRestartExit(i) /\ pc[i] = "done" => pc'[i] = "done"]_vars

\* The task of an unsupervised actor that was told to restart has ended after
\* on_restart, and a later message was sent to its address.
UnsupervisedRestartWitness ==
    /\ PlainRestartExit(1)
    /\ pc[1] = "done"
    /\ hooks[1]["on_restart"] = 1
    /\ sent > lastSeq[1]
\* ------------------------------------------------------------------ C34
\* C34: whenever the supervision loop is about to call run() for a new life
\* of an actor (after a Restart or RestartDelayed decision, whatever the exit
\* reason of the life before), the control flag of the actor is Run.
FlagRunAtLifeStart ==
    \A i \in Actors : restarted[i] /\ pc[i] = "start" => flag[i] = "Run"
\* ------------------------------------------------------------------ C35
\* Actor i holds the entry of its name.
Holds(i) == registry[name[i]] = i

\* C35: every entry of the registry is the address of a live actor that was
\* registered under that name, and the entry of a live actor is taken away
\* (overwritten or removed) only by the actor's own task when it exits, or by
\* stop().
RegistryOwnership ==
    /\ [](\A n \in Names : registry[n] # NoActor =>
             name[registry[n]] = n /\ Live(registry[n]))
    /\ [][\A i \in Actors :
            Live(i) /\ Holds(i) /\ registry'[name[i]] # i
            => (pc[i] = "exited" /\ pc'[i] = "done") \/ stopPc' # stopPc]_vars
\* ------------------------------------------------------------------ C36
\* C36: once spawn_test has returned, with true or with false and whatever
\* the exit reason of the driver, no entry of the registry holds the driver's
\* address (so that the loop of start() is not kept waiting by it).
DriverCleanup ==
    Returned => \A n \in Names : registry[n] # Driver
\* ------------------------------------------------------------------ C37
\* The RunNext signals waiting in the driver's mailbox.
RunNextPending ==
    Cardinality({k \in 1..Len(queue[Driver]) : queue[Driver][k].payload = "RunNext"})

\* C37: while the driver runs, its state is PendingResponse exactly while it
\* waits for the response of an ask, check or expect step and Ready
\* otherwise; it takes every task in state Ready; and at most one RunNext
\* signal is in its mailbox at any time.
DriverDiscipline ==
    /\ [](pc[Driver] \in {"loop", "handling"} => (test_state # Ready <=> awaiting))
    /\ [][TakesTask => test_state = Ready]_vars
    /\ [](RunNextPending <= 1)

\* The stop() call has returned and so has the spawn call of actor i, whose
\* task has not ended by itself.
BothReturned(i) ==
    /\ stops > 0
    /\ stopPc = "idle"
    /\ call[i] = "ok"
    /\ pc[i] \notin {"done", "panicked"}

\* The task of actor i is cancelled or marked for cancellation by abort().
Stopped(i) == pc[i] = "cancelled" \/ aborted[i]

\* C38: for every interleaving of a stop() call with a spawn or
\* spawn_with_supervision call, once both have returned the new actor is
\* either registered and running or unregistered and cancelled; it is never
\* running while it is absent from the registry and was not reached by the
\* abort loop of stop().
StopSpawnRace ==
    \A i \in Pair :
        BothReturned(i) =>
            \/ Holds(i) /\ Live(i) /\ ~Stopped(i)
            \/ ~Holds(i) /\ Stopped(i)

\* C39: whenever a handler or a lifecycle hook of an actor runs (its task is
\* live: in its first life or after a restart, a regular actor or the test
\* driver), the actor's context holds the system, so that ctx.spawn and
\* ctx.broadcast_tell / broadcast_ask do not return ActorNotSpawnedYet, and
\* ctx.query(n) returns None only when no actor is registered under n.
SystemReference ==
    \A i \in Actors :
        Live(i) =>
            /\ sys[i] = "Some"
            /\ ActorContext_result(i, "Ok") # "ActorNotSpawnedYet"
            /\ \A n \in Names : ActorContext_query(i, n) = NoActor => registry[n] = NoActor

\* The test driver runs a handler while the subject, in a handler of its
\* own, is about to look up "test_actor" and finds the driver.
SystemReferenceWitness ==
    /\ pc[Driver] = "handling"
    /\ pc[Subject] = "handling"
    /\ handler[Subject] = "emit"
    /\ ActorContext_query(Subject, "test_actor") = Driver
====
